---- MODULE Spec2Model ----
(***************************************************************************)
(* trace-viewer: the trace reconstruction engine (src/src/trace_loader.rs, *)
(* parse_trace) over the event model of src/src/models.rs.                 *)
(*                                                                         *)
(* parse_trace reads the lines of a .trace entry one by one, decodes each  *)
(* as a TraceEvent and replays it into an in-progress map of actions, a    *)
(* map of pages and a raw event list; then it reads the lines of the       *)
(* optional .network entry, and finally drains the maps into the Context.  *)
(* One step of the model is one iteration of these loops, or the           *)
(* finalization.  The lines are supplied by the environment as the loop    *)
(* advances; trace_content and network_content hold the lines read so far. *)
(*                                                                         *)
(* A second specification, SpecArchive, is the layer above parse_trace:    *)
(* App::load_file (src/src/lib.rs) hands the bytes of a dropped file to    *)
(* load_test_cases_from_zip (src/src/test_case_loader.rs) and then to      *)
(* load_trace_from_zip, which classifies the archive and either loads it   *)
(* as a single trace archive or recurses into the nested archives of a     *)
(* report archive.  One step of that model is one call, one iteration of   *)
(* the nested-archive loop, or one return.  It starts at the App in the    *)
(* Idle state: a drop or selection of a file, the read of its bytes, and   *)
(* the messages the read callback sends, each applied by App::update.      *)
(*                                                                         *)
(* SpecTestCases is load_test_cases_from_zip alone over bundles of test    *)
(* case folders, and SpecExport is export_to_markdown                      *)
(* (src/src/markdown_exporter.rs) applied to a TraceModel and its          *)
(* ExportOptions.                                                          *)
(***************************************************************************)
EXTENDS Integers, Sequences, FiniteSets, TLC

VARIABLES
    trace_content,    \* lines of the .trace entry read so far (input)
    network_content,  \* lines of the .network entry read so far (input)
    actions_map,      \* HashMap<String, ActionEntry>, keyed by call id
    pages,            \* HashMap<String, PageEntry>, keyed by page id
    events,           \* Vec<TraceEvent>: every decoded event, in arrival order
    context,          \* the ContextEntry under construction / returned
    pc,               \* "trace" | "network" | "done"
    bytes,            \* the bytes of the file being loaded (input)
    entry_point,      \* "load_file" (the application) | "load_trace_from_zip"
    arg,              \* the bytes passed to the load_trace_from_zip call in progress
    stack,            \* the load_report_archive activations below that call
    ret,              \* the Result the last completed call returned
    apc,              \* position of the archive loader
    message,          \* the AppMessage sent by App::load_file, if any
    state,            \* App.state, the LoadingState
    model,            \* the TraceModel handed to export_to_markdown (input)
    options,          \* the ExportOptions handed to it (input)
    output            \* the pieces pushed to the output String, in order

parse_vars == <<trace_content, network_content, actions_map, pages, events, context, pc>>
archive_vars == <<bytes, entry_point, arg, stack, ret, apc, message, state>>
export_vars == <<model, options, output>>

vars == <<trace_content, network_content, actions_map, pages, events, context, pc,
          bytes, entry_point, arg, stack, ret, apc, message, state,
          model, options, output>>

-----------------------------------------------------------------------------
(* Bounds and program constants *)

\* total number of lines read from the .trace and .network texts
MaxLines == 3

\* f64::MAX, the initial value of ContextEntry.start_time
F64MAX == 1000

-----------------------------------------------------------------------------
(* Option<T> and HashMap<K, V> *)

None == <<>>
Some(x) == <<x>>
IsSome(o) == o # <<>>
Unwrap(o) == o[1]

EmptyMap == [k \in {} |-> k]

\* HashMap::insert: an existing entry under the same key is replaced
MapInsert(map, k, v) == [x \in (DOMAIN map) \cup {k} |-> IF x = k THEN v ELSE map[x]]

\* the orders in which HashMap::into_values may yield the entries of a map
\* (the iteration order of a std HashMap is unspecified)
IntoValuesOrders(map) ==
    LET n == Cardinality(DOMAIN map)
    IN  { [i \in 1..n |-> map[ks[i]]] :
            ks \in { s \in [1..n -> DOMAIN map] : \A i, j \in 1..n : i # j => s[i] # s[j] } }

Max2(a, b) == IF a > b THEN a ELSE b
SetMin(S) == CHOOSE x \in S : \A y \in S : x <= y
SetMax(S) == CHOOSE x \in S : \A y \in S : x >= y
Last(s) == s[Len(s)]

-----------------------------------------------------------------------------
(* The lines a trace may hold: JSON objects are records keyed by the JSON  *)
(* field names; an optional field that is absent is absent from the record.*)

CallIds == {"c1", "c2"}
StartTimes == {1, 2}

\* a before line with no title and no parentId
BeforeGoto(c, t) ==
    [type |-> "before", callId |-> c, startTime |-> t, class |-> "Page",
     method |-> "goto", params |-> {<<"url", "https://x">>}, pageId |-> "page@1"]

\* a before line with a title and a parentId, no params and no pageId
BeforeClick(c, t) ==
    [type |-> "before", callId |-> c, startTime |-> t, title |-> "Click",
     class |-> "Locator", method |-> "click", parentId |-> "c1"]

BeforeLines ==
    {BeforeGoto(c, t) : c \in CallIds, t \in StartTimes}
        \cup {BeforeClick(c, t) : c \in CallIds, t \in StartTimes}

AfterOk(c, t) == [type |-> "after", callId |-> c, endTime |-> t]

AfterErr(c, t) ==
    [type |-> "after", callId |-> c, endTime |-> t,
     error |-> [message |-> "Timeout 30000ms exceeded"]]

AfterLines ==
    {AfterOk(c, 1) : c \in CallIds} \cup {AfterErr(c, 3) : c \in CallIds}

ContextOptionsLines ==
    { [type |-> "context-options", version |-> 7, browserName |-> "chromium",
       platform |-> "linux", playwrightVersion |-> "1.40.0", wallTime |-> 50,
       monotonicTime |-> 0, title |-> "Boid Pointer Tracking"],
      [type |-> "context-options", version |-> 7, browserName |-> "firefox",
       wallTime |-> 60, monotonicTime |-> 3] }

ScreencastFrameLines ==
    { [type |-> "screencast-frame", pageId |-> "page@1", sha1 |-> "aa11",
       width |-> 1280, height |-> 720, timestamp |-> 2],
      [type |-> "screencast-frame", pageId |-> "page@1", sha1 |-> "bb22",
       width |-> 1280, height |-> 720, timestamp |-> 1],
      [type |-> "screencast-frame", pageId |-> "page@2", sha1 |-> "cc33",
       width |-> 800, height |-> 600, timestamp |-> 3] }

InputLine == [type |-> "input", callId |-> "c1"]

\* a record kind the decoder does not know
ConsoleLine == [type |-> "console", text |-> "hello"]

\* not a JSON object at all
NotJsonLine == [raw |-> "{not json"]

\* a line that is empty after trim()
BlankLine == [raw |-> ""]

\* a before object without the required field "class"
BeforeNoClassLine ==
    [type |-> "before", callId |-> "c2", startTime |-> 1, method |-> "goto"]

MalformedLines == {NotJsonLine, BeforeNoClassLine}

TraceLines ==
    BeforeLines \cup AfterLines \cup ContextOptionsLines \cup ScreencastFrameLines
        \cup {InputLine, ConsoleLine, BlankLine} \cup MalformedLines

\* the lines a .network text may hold: records of every kind the trace loop
\* acts on, a record of an unknown kind and a line that is not JSON
NetworkLines ==
    {ConsoleLine, BeforeGoto("c2", 1), AfterErr("c1", 3), NotJsonLine,
     [type |-> "screencast-frame", pageId |-> "page@2", sha1 |-> "cc33",
      width |-> 800, height |-> 600, timestamp |-> 3],
     [type |-> "context-options", version |-> 7, browserName |-> "firefox",
      wallTime |-> 60, monotonicTime |-> 3]}

-----------------------------------------------------------------------------
(* serde_json::from_str::<TraceEvent>: the decoder of models.rs.  The enum *)
(* is internally tagged by "type"; struct fields are renamed to camelCase; *)
(* a field without #[serde(default)] is required; an unknown tag decodes   *)
(* to the unit variant Other.                                              *)

Opt(obj, field) == IF field \in DOMAIN obj THEN Some(obj[field]) ELSE None

DecodeErr == [ok |-> FALSE]
DecodeOk(ev) == [ok |-> TRUE, event |-> ev]

OtherEvent == [type |-> "Other"]

DecodeSerializedError(obj) ==
    [message |-> Opt(obj, "message"), stack |-> Opt(obj, "stack")]

DecodeBefore(obj) ==
    IF {"callId", "startTime", "class", "method"} \subseteq DOMAIN obj
    THEN DecodeOk([type |-> "before",
                   call_id |-> obj.callId,
                   start_time |-> obj.startTime,
                   title |-> Opt(obj, "title"),
                   class |-> obj.class,
                   method |-> obj.method,
                   params |-> IF "params" \in DOMAIN obj THEN obj.params ELSE {},
                   page_id |-> Opt(obj, "pageId"),
                   parent_id |-> Opt(obj, "parentId")])
    ELSE DecodeErr

DecodeAfter(obj) ==
    IF {"callId", "endTime"} \subseteq DOMAIN obj
    THEN DecodeOk([type |-> "after",
                   call_id |-> obj.callId,
                   end_time |-> obj.endTime,
                   error |-> IF "error" \in DOMAIN obj
                             THEN Some(DecodeSerializedError(obj.error))
                             ELSE None,
                   result |-> Opt(obj, "result")])
    ELSE DecodeErr

DecodeInput(obj) ==
    IF {"callId"} \subseteq DOMAIN obj
    THEN DecodeOk([type |-> "input",
                   call_id |-> obj.callId,
                   input_snapshot |-> Opt(obj, "inputSnapshot")])
    ELSE DecodeErr

DecodeScreencastFrame(obj) ==
    IF {"pageId", "sha1", "width", "height", "timestamp"} \subseteq DOMAIN obj
    THEN DecodeOk([type |-> "screencast-frame",
                   page_id |-> obj.pageId,
                   sha1 |-> obj.sha1,
                   width |-> obj.width,
                   height |-> obj.height,
                   timestamp |-> obj.timestamp])
    ELSE DecodeErr

DecodeContextOptions(obj) ==
    IF {"version", "browserName", "wallTime", "monotonicTime"} \subseteq DOMAIN obj
    THEN DecodeOk([type |-> "context-options",
                   version |-> obj.version,
                   browser_name |-> obj.browserName,
                   platform |-> Opt(obj, "platform"),
                   playwright_version |-> Opt(obj, "playwrightVersion"),
                   wall_time |-> obj.wallTime,
                   monotonic_time |-> obj.monotonicTime,
                   title |-> Opt(obj, "title")])
    ELSE DecodeErr

\* variant: an unknown tag is a decode error (no #[serde(other)] variant)
DecodeUnknownTagFails(line) ==
    IF "type" \notin DOMAIN line THEN DecodeErr
    ELSE IF line.type = "before" THEN DecodeBefore(line)
    ELSE IF line.type = "after" THEN DecodeAfter(line)
    ELSE IF line.type = "input" THEN DecodeInput(line)
    ELSE IF line.type = "screencast-frame" THEN DecodeScreencastFrame(line)
    ELSE IF line.type = "context-options" THEN DecodeContextOptions(line)
    ELSE DecodeErr

\* a lenient decoder that turns an undecodable line into Other
DecodeLenient(line) ==
    IF "type" \notin DOMAIN line THEN DecodeOk(OtherEvent)
    ELSE IF line.type = "before" THEN DecodeBefore(line)
    ELSE IF line.type = "after" THEN DecodeAfter(line)
    ELSE DecodeOk(OtherEvent)

Decode(line) ==
    IF "type" \notin DOMAIN line THEN DecodeErr
    ELSE IF line.type = "before" THEN DecodeBefore(line)
    ELSE IF line.type = "after" THEN DecodeAfter(line)
    ELSE IF line.type = "input" THEN DecodeInput(line)
    ELSE IF line.type = "screencast-frame" THEN DecodeScreencastFrame(line)
    ELSE IF line.type = "context-options" THEN DecodeContextOptions(line)
    ELSE DecodeOk(OtherEvent)

\* line.trim().is_empty()
IsBlank(line) == "raw" \in DOMAIN line /\ line.raw = ""

-----------------------------------------------------------------------------
(* The arms of parse_trace's match on the decoded event *)

\* variant: the parent reference is not carried over
NewActionNoParent(before) ==
    [action_type |-> "before",
     call_id |-> before.call_id,
     start_time |-> before.start_time,
     end_time |-> 0,
     title |-> before.title,
     class |-> Some(before.class),
     method |-> Some(before.method),
     params |-> before.params,
     page_id |-> before.page_id,
     parent_id |-> None,
     error |-> None,
     log |-> <<>>]

\* TraceEvent::Before: the ActionEntry built from the event
NewAction(before) ==
    [action_type |-> "before",
     call_id |-> before.call_id,
     start_time |-> before.start_time,
     end_time |-> 0,
     title |-> before.title,
     class |-> Some(before.class),
     method |-> Some(before.method),
     params |-> before.params,
     page_id |-> before.page_id,
     parent_id |-> before.parent_id,
     error |-> None,
     log |-> <<>>]

\* variant: the start time of the latest before event, no comparison
StartTimeOverwritten(start_time, action) == action.start_time

\* TraceEvent::Before: the running minimum kept in context.start_time
StartTimeAfterBefore(start_time, action) ==
    IF action.start_time < start_time THEN action.start_time ELSE start_time

\* variant: the action is appended under a fresh key, as to a Vec
ActionsPushed(map, before) ==
    MapInsert(map, ToString(Cardinality(DOMAIN map)), NewAction(before))

\* variant: a repeated before keeps the end time and error already attached
ActionsAfterBeforeMerged(map, before) ==
    MapInsert(map, before.call_id,
        IF before.call_id \in DOMAIN map
        THEN [NewAction(before) EXCEPT !.end_time = map[before.call_id].end_time,
                                       !.error = map[before.call_id].error]
        ELSE NewAction(before))

\* variant: entry(call_id).or_insert(action), the action of the first before stays
ActionsAfterBeforeKept(map, before) ==
    IF before.call_id \in DOMAIN map THEN map
    ELSE MapInsert(map, before.call_id, NewAction(before))

\* TraceEvent::Before: actions_map.insert(before.call_id.clone(), action)
ActionsAfterBefore(map, before) == MapInsert(map, before.call_id, NewAction(before))

\* variant: entry(call_id).or_insert_with(..), an orphan after creates an action
ActionsAfterAfterUpsert(map, after) ==
    MapInsert(map, after.call_id,
        [(IF after.call_id \in DOMAIN map
          THEN map[after.call_id]
          ELSE [action_type |-> "after", call_id |-> after.call_id, start_time |-> 0,
                end_time |-> 0, title |-> None, class |-> None, method |-> None,
                params |-> {}, page_id |-> None, parent_id |-> None, error |-> None,
                log |-> <<>>])
         EXCEPT !.end_time = after.end_time, !.error = after.error])

\* variant: the end time is set, the error is not attached
ActionsAfterAfterEndOnly(map, after) ==
    IF after.call_id \in DOMAIN map
    THEN [map EXCEPT ![after.call_id] = [@ EXCEPT !.end_time = after.end_time]]
    ELSE map

\* variant: the end time is clamped so that it is never before the start
ActionsAfterAfterClamped(map, after) ==
    IF after.call_id \in DOMAIN map
    THEN [map EXCEPT ![after.call_id] =
              [@ EXCEPT !.end_time = Max2(after.end_time, map[after.call_id].start_time),
                        !.error = after.error]]
    ELSE map

\* variant: an action that already has an end time or an error is left as it is
ActionsAfterAfterOnce(map, after) ==
    IF /\ after.call_id \in DOMAIN map
       /\ map[after.call_id].end_time = 0
       /\ map[after.call_id].error = None
    THEN [map EXCEPT ![after.call_id] =
              [@ EXCEPT !.end_time = after.end_time, !.error = after.error]]
    ELSE map

\* TraceEvent::After: if let Some(action) = actions_map.get_mut(&after.call_id)
ActionsAfterAfter(map, after) ==
    IF after.call_id \in DOMAIN map
    THEN [map EXCEPT ![after.call_id] =
              [@ EXCEPT !.end_time = after.end_time, !.error = after.error]]
    ELSE map

\* variant: the end time of the latest matched after event, no comparison
EndTimeOverwritten(end_time, map, after) ==
    IF after.call_id \in DOMAIN map THEN after.end_time ELSE end_time

\* variant: the comparison inverted
EndTimeInverted(end_time, map, after) ==
    IF after.call_id \in DOMAIN map /\ after.end_time < end_time
    THEN after.end_time
    ELSE end_time

\* variant: the comparison stands outside the if-let, any after raises the end
EndTimeRaisedByAnyAfter(end_time, map, after) ==
    IF after.end_time > end_time THEN after.end_time ELSE end_time

\* TraceEvent::After: the running maximum kept in context.end_time, raised
\* only inside the if-let, i.e. when the action was found
EndTimeAfterAfter(end_time, map, after) ==
    IF after.call_id \in DOMAIN map /\ after.end_time > end_time
    THEN after.end_time
    ELSE end_time

\* variant: the time bounds start at the monotonic origin of the event
ContextAfterOptionsWithOrigin(ctx, opts) ==
    [ctx EXCEPT !.browser_name = opts.browser_name,
                !.platform = opts.platform,
                !.playwright_version = opts.playwright_version,
                !.wall_time = opts.wall_time,
                !.title = opts.title,
                !.start_time = opts.monotonic_time,
                !.end_time = opts.monotonic_time]

\* variant: an optional field that is absent leaves the earlier value
ContextAfterOptionsMerged(ctx, opts) ==
    [ctx EXCEPT !.browser_name = opts.browser_name,
                !.platform = IF IsSome(opts.platform) THEN opts.platform ELSE @,
                !.playwright_version =
                    IF IsSome(opts.playwright_version) THEN opts.playwright_version ELSE @,
                !.wall_time = opts.wall_time,
                !.title = IF IsSome(opts.title) THEN opts.title ELSE @]

\* TraceEvent::ContextOptions: the five fields overwritten
ContextAfterOptions(ctx, opts) ==
    [ctx EXCEPT !.browser_name = opts.browser_name,
                !.platform = opts.platform,
                !.playwright_version = opts.playwright_version,
                !.wall_time = opts.wall_time,
                !.title = opts.title]

\* variant: pages.insert(page_id, ..), the page starts over with each frame
PagesAfterFrameReplaced(pgs, frame) ==
    MapInsert(pgs, frame.page_id,
              [page_id |-> frame.page_id,
               screencast_frames |-> <<[sha1 |-> frame.sha1,
                                        timestamp |-> frame.timestamp,
                                        width |-> frame.width,
                                        height |-> frame.height,
                                        frame_swap_wall_time |-> None]>>])

\* TraceEvent::ScreencastFrame: pages.entry(page_id).or_insert_with(..), push
PagesAfterFrame(pgs, frame) ==
    LET page == IF frame.page_id \in DOMAIN pgs
                THEN pgs[frame.page_id]
                ELSE [page_id |-> frame.page_id, screencast_frames |-> <<>>]
        pushed == [sha1 |-> frame.sha1,
                   timestamp |-> frame.timestamp,
                   width |-> frame.width,
                   height |-> frame.height,
                   frame_swap_wall_time |-> None]
    IN  MapInsert(pgs, frame.page_id,
                  [page EXCEPT !.screencast_frames = Append(@, pushed)])

-----------------------------------------------------------------------------
(* Finalization: the stable sort of context.actions by start_time *)

\* insert a after every element whose start_time is <= a.start_time
RECURSIVE InsertByStartTime(_, _)
InsertByStartTime(sorted, a) ==
    IF sorted = <<>> THEN <<a>>
    ELSE IF Last(sorted).start_time <= a.start_time THEN Append(sorted, a)
    ELSE Append(InsertByStartTime(SubSeq(sorted, 1, Len(sorted) - 1), a), Last(sorted))

RECURSIVE SortFrom(_, _)
SortFrom(sorted, rest) ==
    IF rest = <<>> THEN sorted
    ELSE SortFrom(InsertByStartTime(sorted, Head(rest)), Tail(rest))

\* the drained actions left in drain order
Unsorted(actions) == actions

\* Vec::sort_by(|a, b| a.start_time.partial_cmp(&b.start_time).unwrap())
SortByStartTime(actions) == SortFrom(<<>>, actions)

-----------------------------------------------------------------------------
(* parse_trace as a state machine *)

\* the ContextEntry parse_trace starts from
InitialContext ==
    [start_time |-> F64MAX,
     end_time |-> 0,
     browser_name |-> "",
     platform |-> None,
     playwright_version |-> None,
     wall_time |-> 0,
     title |-> None,
     pages |-> <<>>,
     actions |-> <<>>,
     resources |-> <<>>,
     events |-> <<>>,
     errors |-> <<>>]

\* a parse_trace call that has just started
ParseTraceStarts ==
    /\ trace_content = <<>>
    /\ network_content = <<>>
    /\ actions_map = EmptyMap
    /\ pages = EmptyMap
    /\ events = <<>>
    /\ context = InitialContext
    /\ pc = "trace"

\* bytes that are neither a ZIP archive nor UTF-8 text
Binary == [kind |-> "binary", entries |-> <<>>, text |-> ""]

\* parse_trace called on its own (as the tests do): no archive is involved
NoArchive ==
    /\ bytes = Binary
    /\ entry_point = "parse_trace"
    /\ arg = Binary
    /\ stack = <<>>
    /\ ret = None
    /\ apc = "idle"
    /\ message = None
    /\ state = [type |-> "Idle"]

\* export_to_markdown is not called
NoExport ==
    /\ model = [contexts |-> <<>>]
    /\ options = [errors_only |-> FALSE]
    /\ output = <<>>

Init ==
    /\ ParseTraceStarts
    /\ NoArchive
    /\ NoExport

LinesRead == Len(trace_content) + Len(network_content)

\* the trace loop reads one more line
ReadsTraceLine(line) ==
    /\ pc = "trace"
    /\ LinesRead < MaxLines
    /\ trace_content' = Append(trace_content, line)
    /\ UNCHANGED <<network_content, pc>>
    /\ UNCHANGED <<archive_vars, export_vars>>

\* the lines the match on serde_json::from_str(line) sends to each arm
LinesDecodingTo(kinds) ==
    {line \in TraceLines :
        ~IsBlank(line) /\ Decode(line).ok /\ Decode(line).event.type \in kinds}

BlankTraceLines == {line \in TraceLines : IsBlank(line)}
MalformedTraceLines == {line \in TraceLines : ~IsBlank(line) /\ ~Decode(line).ok}
ContextOptionsTraceLines == LinesDecodingTo({"context-options"})
BeforeTraceLines == LinesDecodingTo({"before"})
AfterTraceLines == LinesDecodingTo({"after"})
ScreencastFrameTraceLines == LinesDecodingTo({"screencast-frame"})
InertTraceLines == LinesDecodingTo({"input", "Other"})

\* if line.is_empty() { continue; }
TraceBlankLine ==
    \E line \in BlankTraceLines :
        /\ ReadsTraceLine(line)
        /\ UNCHANGED <<actions_map, pages, events, context>>

\* Err(e) => log::warn!(..)
TraceMalformedLine ==
    \E line \in MalformedTraceLines :
        /\ ReadsTraceLine(line)
        /\ UNCHANGED <<actions_map, pages, events, context>>

TraceContextOptions ==
    \E line \in ContextOptionsTraceLines :
        LET event == Decode(line).event
        IN  /\ ReadsTraceLine(line)
            /\ context' = ContextAfterOptions(context, event)
            /\ events' = Append(events, event)
            /\ UNCHANGED <<actions_map, pages>>

TraceBefore ==
    \E line \in BeforeTraceLines :
        LET event == Decode(line).event
        IN  /\ ReadsTraceLine(line)
            /\ context' = [context EXCEPT !.start_time =
                               StartTimeAfterBefore(@, NewAction(event))]
            /\ actions_map' = ActionsAfterBefore(actions_map, event)
            /\ events' = Append(events, event)
            /\ UNCHANGED pages

TraceAfter ==
    \E line \in AfterTraceLines :
        LET event == Decode(line).event
        IN  /\ ReadsTraceLine(line)
            /\ actions_map' = ActionsAfterAfter(actions_map, event)
            /\ context' = [context EXCEPT !.end_time =
                               EndTimeAfterAfter(@, actions_map, event)]
            /\ events' = Append(events, event)
            /\ UNCHANGED pages

TraceScreencastFrame ==
    \E line \in ScreencastFrameTraceLines :
        LET event == Decode(line).event
        IN  /\ ReadsTraceLine(line)
            /\ pages' = PagesAfterFrame(pages, event)
            /\ events' = Append(events, event)
            /\ UNCHANGED <<actions_map, context>>

\* variant: an inert event is dropped instead of being recorded
TraceInertNotRecorded ==
    \E line \in InertTraceLines :
        /\ ReadsTraceLine(line)
        /\ UNCHANGED <<actions_map, pages, events, context>>

\* _ => {}: Input and Other
TraceInert ==
    \E line \in InertTraceLines :
        LET event == Decode(line).event
        IN  /\ ReadsTraceLine(line)
            /\ events' = Append(events, event)
            /\ UNCHANGED <<actions_map, pages, context>>

\* if let Some(network) = network_content: the trace loop is over
BeginNetwork ==
    /\ pc = "trace"
    /\ pc' = "network"
    /\ UNCHANGED <<trace_content, network_content, actions_map, pages, events, context>>
    /\ UNCHANGED <<archive_vars, export_vars>>

\* variant: the network loop replays a decoded event like the trace loop
NetworkLineReplayed ==
    \E line \in NetworkLines \cup {BlankLine} :
        LET decoded == ~IsBlank(line) /\ Decode(line).ok
            event == Decode(line).event
        IN  /\ pc = "network"
            /\ LinesRead < MaxLines
            /\ network_content' = Append(network_content, line)
            /\ events' = IF decoded THEN Append(events, event) ELSE events
            /\ actions_map' =
                   IF decoded /\ event.type = "before"
                   THEN ActionsAfterBefore(actions_map, event)
                   ELSE IF decoded /\ event.type = "after"
                   THEN ActionsAfterAfter(actions_map, event)
                   ELSE actions_map
            /\ pages' = IF decoded /\ event.type = "screencast-frame"
                        THEN PagesAfterFrame(pages, event)
                        ELSE pages
            /\ context' =
                   IF decoded /\ event.type = "context-options"
                   THEN ContextAfterOptions(context, event)
                   ELSE IF decoded /\ event.type = "before"
                   THEN [context EXCEPT !.start_time =
                             StartTimeAfterBefore(@, NewAction(event))]
                   ELSE IF decoded /\ event.type = "after"
                   THEN [context EXCEPT !.end_time =
                             EndTimeAfterAfter(@, actions_map, event)]
                   ELSE context
            /\ UNCHANGED <<trace_content, pc>>
            /\ UNCHANGED <<archive_vars, export_vars>>

\* one iteration of the network loop
NetworkLine ==
    \E line \in NetworkLines \cup {BlankLine} :
        /\ pc = "network"
        /\ LinesRead < MaxLines
        /\ network_content' = Append(network_content, line)
        /\ events' = IF ~IsBlank(line) /\ Decode(line).ok
                     THEN Append(events, Decode(line).event)
                     ELSE events
        /\ UNCHANGED <<trace_content, actions_map, pages, context, pc>>
        /\ UNCHANGED <<archive_vars, export_vars>>

\* the Context returned when the maps are drained in the given orders
Finalized(drained, drained_pages) ==
    [context EXCEPT !.actions = SortByStartTime(drained),
                    !.pages = drained_pages,
                    !.events = events,
                    !.errors = <<>>]

\* "Convert maps to vectors": drain, sort, assign, return Ok(context)
Finalize ==
    /\ pc \in {"trace", "network"}
    /\ \E drained \in IntoValuesOrders(actions_map) :
       \E drained_pages \in IntoValuesOrders(pages) :
            context' = Finalized(drained, drained_pages)
    /\ pc' = "done"
    /\ UNCHANGED <<trace_content, network_content, actions_map, pages, events>>
    /\ UNCHANGED <<archive_vars, export_vars>>

Next ==
    \/ TraceBlankLine
    \/ TraceMalformedLine
    \/ TraceContextOptions
    \/ TraceBefore
    \/ TraceAfter
    \/ TraceScreencastFrame
    \/ TraceInert
    \/ BeginNetwork
    \/ NetworkLine
    \/ Finalize

Spec == Init /\ [][Next]_vars

-----------------------------------------------------------------------------
(* Strings: the str methods the loaders call, computed on the characters *)

\* str::starts_with
StartsWith(s, prefix) ==
    Len(s) >= Len(prefix) /\ SubSeq(s, 1, Len(prefix)) = prefix

\* str::ends_with
EndsWith(s, suffix) ==
    Len(s) >= Len(suffix) /\ SubSeq(s, Len(s) - Len(suffix) + 1, Len(s)) = suffix

\* the string without its suffix, removed once
StripSuffixOnce(s, suffix) ==
    IF EndsWith(s, suffix) THEN SubSeq(s, 1, Len(s) - Len(suffix)) ELSE s

\* str::trim_end_matches: the suffix is removed as often as it repeats
RECURSIVE TrimEndMatches(_, _)
TrimEndMatches(s, suffix) ==
    IF suffix # "" /\ EndsWith(s, suffix)
    THEN TrimEndMatches(SubSeq(s, 1, Len(s) - Len(suffix)), suffix)
    ELSE s

\* str::trim_start_matches
RECURSIVE TrimStartMatches(_, _)
TrimStartMatches(s, prefix) ==
    IF prefix # "" /\ StartsWith(s, prefix)
    THEN TrimStartMatches(SubSeq(s, Len(prefix) + 1, Len(s)), prefix)
    ELSE s

\* str::contains
Contains(s, sub) ==
    \E i \in 1..(Len(s) - Len(sub) + 1) : SubSeq(s, i, i + Len(sub) - 1) = sub

\* the positions of the '/' characters of a path
Slashes(path) == {i \in 1..Len(path) : SubSeq(path, i, i) = "/"}

\* path.split('/').next()
FirstSegment(path) ==
    IF Slashes(path) = {} THEN path
    ELSE SubSeq(path, 1, (CHOOSE i \in Slashes(path) :
                             \A j \in Slashes(path) : i <= j) - 1)

\* path.split('/').next_back()
LastSegment(path) ==
    IF Slashes(path) = {} THEN path
    ELSE SubSeq(path, (CHOOSE i \in Slashes(path) :
                          \A j \in Slashes(path) : i >= j) + 1, Len(path))

UpperCaseLetters == "ABCDEFGHIJKLMNOPQRSTUVWXYZ"
LowerCaseLetters == "abcdefghijklmnopqrstuvwxyz"

\* char::to_lowercase on the ASCII letters
LowerChar(c) ==
    LET at == {i \in 1..Len(UpperCaseLetters) : SubSeq(UpperCaseLetters, i, i) = c}
    IN  IF at = {} THEN c
        ELSE SubSeq(LowerCaseLetters, CHOOSE i \in at : TRUE, CHOOSE i \in at : TRUE)

\* str::to_lowercase
RECURSIVE ToLowercase(_)
ToLowercase(s) ==
    IF s = "" THEN "" ELSE LowerChar(SubSeq(s, 1, 1)) \o ToLowercase(Tail(s))

\* char::to_uppercase on the ASCII letters
UpperChar(c) ==
    LET at == {i \in 1..Len(LowerCaseLetters) : SubSeq(LowerCaseLetters, i, i) = c}
    IN  IF at = {} THEN c
        ELSE SubSeq(UpperCaseLetters, CHOOSE i \in at : TRUE, CHOOSE i \in at : TRUE)

\* char::is_whitespace on the characters of the model's texts
IsWhitespace(c) == c \in {" ", "\t", "\n", "\r"}

\* str::trim
RECURSIVE Trim(_)
Trim(s) ==
    IF s = "" THEN ""
    ELSE IF IsWhitespace(SubSeq(s, 1, 1)) THEN Trim(Tail(s))
    ELSE IF IsWhitespace(SubSeq(s, Len(s), Len(s))) THEN Trim(SubSeq(s, 1, Len(s) - 1))
    ELSE s

\* str::lines: the text split at "\n", a final empty line dropped and a
\* trailing "\r" removed from each line
RECURSIVE Lines(_)
Lines(s) ==
    IF s = "" THEN <<>>
    ELSE LET breaks == {i \in 1..Len(s) : SubSeq(s, i, i) = "\n"}
             first == CHOOSE i \in breaks : \A j \in breaks : i <= j
             line == IF breaks = {} THEN s ELSE SubSeq(s, 1, first - 1)
             rest == IF breaks = {} THEN "" ELSE SubSeq(s, first + 1, Len(s))
         IN  <<StripSuffixOnce(line, "\r")>> \o Lines(rest)

\* str::replace(['-', '_'], " ")
RECURSIVE ReplaceDashes(_)
ReplaceDashes(s) ==
    IF s = "" THEN ""
    ELSE (IF SubSeq(s, 1, 1) \in {"-", "_"} THEN " " ELSE SubSeq(s, 1, 1))
             \o ReplaceDashes(Tail(s))

\* str::split_whitespace: the maximal runs of non-whitespace characters;
\* word is the run being read
RECURSIVE SplitWhitespace(_, _)
SplitWhitespace(s, word) ==
    IF s = "" THEN (IF word = "" THEN <<>> ELSE <<word>>)
    ELSE IF IsWhitespace(SubSeq(s, 1, 1))
    THEN (IF word = "" THEN <<>> ELSE <<word>>) \o SplitWhitespace(Tail(s), "")
    ELSE SplitWhitespace(Tail(s), word \o SubSeq(s, 1, 1))

\* [String]::join(" ")
RECURSIVE Join(_)
Join(words) ==
    IF words = <<>> THEN ""
    ELSE IF Len(words) = 1 THEN words[1]
    ELSE words[1] \o " " \o Join(Tail(words))

-----------------------------------------------------------------------------
(* Archives.  The bytes of a file are a ZIP archive (a sequence of entries *)
(* in index order, each a name and its stored data), UTF-8 text, bytes     *)
(* that are neither, stored data that cannot be decompressed, or a copy of *)
(* the bytes of the file being loaded (an archive that contains itself).   *)

Text(t) == [kind |-> "text", entries |-> <<>>, text |-> t]
Zip(entries) == [kind |-> "zip", entries |-> entries, text |-> ""]
Corrupt == [kind |-> "corrupt", entries |-> <<>>, text |-> ""]
Itself == [kind |-> "self", entries |-> <<>>, text |-> ""]

File(name, data) == [name |-> name, data |-> data]

\* the bytes read_to_end delivers for an entry
BytesOf(data) == IF data.kind = "self" THEN bytes ELSE data

\* ZipArchive::new(cursor) succeeds
IsZip(b) == b.kind = "zip"

\* file.read_to_end(..) succeeds
ReadsToEnd(data) == data.kind # "corrupt"

\* file.read_to_string(..) succeeds: the data decompresses to UTF-8
ReadsToString(data) == data.kind = "text"

\* archive.by_name(name).is_ok()
HasEntry(entries, name) == \E i \in 1..Len(entries) : entries[i].name = name

\* the entry archive.by_name(name) opens
ByName(entries, name) ==
    entries[CHOOSE i \in 1..Len(entries) : entries[i].name = name]

\* nested archives a report archive may hold under data/
SingleA == Zip(<<File("0.trace", Text("a0"))>>)
SingleB == Zip(<<File("0.trace", Text("b0")), File("0.network", Text("bn"))>>)
NestedReport == Zip(<<File("data/a.zip", SingleA), File("1.trace", Text("e1"))>>)

\* the entries the archive under load is made of
ArchiveEntries ==
    {File("0.trace", Text("t0")),
     File("1.trace", Text("t1")),
     File("0.network", Text("n0")),
     File("0.trace.trace", Text("tt")),
     File("2.trace", Binary),
     File("__MACOSX/0.trace", Text("m0")),
     File("resources/page.png", Binary),
     File("data/", Text("")),
     File("data/readme.txt", Text("r")),
     File("data/notes.md", Binary),
     File("data/a.zip", SingleA),
     File("data/a2.zip", SingleA),
     File("data/b.zip", SingleB),
     File("data/c.zip", Binary),
     File("data/d.zip", Itself),
     File("data/e.zip", NestedReport),
     File("data/f.zip", Zip(<<>>)),
     File("data/g.zip", Corrupt)}

\* most entries of the archive under load
MaxEntries == 2

\* sequences of at most n entries with pairwise distinct names
RECURSIVE ArchivesUpTo(_)
ArchivesUpTo(n) ==
    IF n = 0 THEN {<<>>}
    ELSE LET shorter == ArchivesUpTo(n - 1)
         IN  shorter \cup
             {Append(es, e) : es \in shorter, e \in ArchiveEntries}

DistinctNames(entries) ==
    \A i, j \in 1..Len(entries) : entries[i].name = entries[j].name => i = j

\* the files a user may drop: any bytes, or a ZIP archive
DroppedFiles ==
    {Binary} \cup {Zip(es) : es \in {x \in ArchivesUpTo(MaxEntries) : DistinctNames(x)}}

-----------------------------------------------------------------------------
(* load_test_cases_from_zip *)

\* extract_folder_name: the first component of the path without its leading
\* and trailing slashes (always Some)
ExtractFolderName(path) ==
    FirstSegment(TrimEndMatches(TrimStartMatches(path, "/"), "/"))

\* file.is_dir() || name.starts_with("__MACOSX") || name.starts_with("._")
IsSkipped(name) ==
    \/ EndsWith(name, "/")
    \/ StartsWith(name, "__MACOSX")
    \/ StartsWith(name, "._")

\* test_case_folders: folder name -> the paths grouped under it, in index order
RECURSIVE TestCaseFolders(_, _)
TestCaseFolders(entries, folders) ==
    IF entries = <<>> THEN folders
    ELSE LET name == Head(entries).name
             folder == ExtractFolderName(name)
         IN  TestCaseFolders(
                 Tail(entries),
                 IF IsSkipped(name) THEN folders
                 ELSE MapInsert(folders, folder,
                                IF folder \in DOMAIN folders
                                THEN Append(folders[folder], name)
                                ELSE <<name>>))

\* variant: the extension is compared as it is spelled
DetermineMimeTypeAsSpelled(filename) ==
    CASE EndsWith(filename, ".png") -> "image/png"
      [] EndsWith(filename, ".jpg") \/ EndsWith(filename, ".jpeg") -> "image/jpeg"
      [] EndsWith(filename, ".webm") -> "video/webm"
      [] EndsWith(filename, ".mp4") -> "video/mp4"
      [] EndsWith(filename, ".zip") -> "application/zip"
      [] OTHER -> "application/octet-stream"

\* determine_mime_type
DetermineMimeType(filename) ==
    LET lower == ToLowercase(filename)
    IN  CASE EndsWith(lower, ".png") -> "image/png"
          [] EndsWith(lower, ".jpg") \/ EndsWith(lower, ".jpeg") -> "image/jpeg"
          [] EndsWith(lower, ".webm") -> "video/webm"
          [] EndsWith(lower, ".mp4") -> "video/mp4"
          [] EndsWith(lower, ".zip") -> "application/zip"
          [] OTHER -> "application/octet-stream"

DecimalDigits == "0123456789"

\* the value of a byte of the model's data: an ASCII letter, digit, space or
\* line feed
ByteOf(c) ==
    LET upper == {i \in 1..Len(UpperCaseLetters) : SubSeq(UpperCaseLetters, i, i) = c}
        lower == {i \in 1..Len(LowerCaseLetters) : SubSeq(LowerCaseLetters, i, i) = c}
        digit == {i \in 1..Len(DecimalDigits) : SubSeq(DecimalDigits, i, i) = c}
    IN  CASE upper # {} -> 64 + (CHOOSE i \in upper : TRUE)
          [] lower # {} -> 96 + (CHOOSE i \in lower : TRUE)
          [] digit # {} -> 47 + (CHOOSE i \in digit : TRUE)
          [] c = "\n" -> 10
          [] OTHER -> 32

\* the standard base64 alphabet, and the character of a 6-bit value
Base64Alphabet == UpperCaseLetters \o LowerCaseLetters \o DecimalDigits \o "+/"
Sextet(n) == SubSeq(Base64Alphabet, n + 1, n + 1)

\* general_purpose::STANDARD.encode(&bytes)
RECURSIVE Base64Encode(_)
Base64Encode(data) ==
    IF data = "" THEN ""
    ELSE LET b1 == ByteOf(SubSeq(data, 1, 1))
             b2 == ByteOf(SubSeq(data, 2, 2))
             b3 == ByteOf(SubSeq(data, 3, 3))
         IN  IF Len(data) = 1
             THEN Sextet(b1 \div 4) \o Sextet((b1 % 4) * 16) \o "=="
             ELSE IF Len(data) = 2
             THEN Sextet(b1 \div 4) \o Sextet((b1 % 4) * 16 + b2 \div 16)
                      \o Sextet((b2 % 16) * 4) \o "="
             ELSE Sextet(b1 \div 4) \o Sextet((b1 % 4) * 16 + b2 \div 16)
                      \o Sextet((b2 % 16) * 4 + b3 \div 64) \o Sextet(b3 % 64)
                      \o Base64Encode(SubSeq(data, 4, Len(data)))

\* load_binary_file_as_attachment, when read_to_end succeeds
Attachment(entries, path) ==
    LET content == BytesOf(ByName(entries, path).data).text
        mime_type == DetermineMimeType(path)
    IN  [name |-> LastSegment(path),
         mime_type |-> mime_type,
         data_url |-> "data:" \o mime_type \o ";base64," \o Base64Encode(content),
         size_bytes |-> Some(Len(content))]

\* the locals of load_test_case_from_folder before its loop
NoFilesLoaded ==
    [ok |-> TRUE, markdown_content |-> None, screenshots |-> <<>>,
     video |-> None, trace_file |-> None]

\* for file_path in files { .. }: the locals after the loop; ok is FALSE when
\* a read failed and `?` left the function
RECURSIVE FilesLoaded(_, _, _)
FilesLoaded(entries, files, loaded) ==
    IF files = <<>> \/ ~loaded.ok THEN loaded
    ELSE LET file_path == Head(files)
             file_name == ToLowercase(LastSegment(file_path))
             data == ByName(entries, file_path).data
             failed == [loaded EXCEPT !.ok = FALSE]
             after ==
                 IF EndsWith(file_name, ".md")
                 THEN IF ReadsToString(data)
                      THEN [loaded EXCEPT !.markdown_content = Some(data.text)]
                      ELSE failed
                 ELSE IF \/ EndsWith(file_name, ".png")
                         \/ EndsWith(file_name, ".jpg")
                         \/ EndsWith(file_name, ".jpeg")
                 THEN IF ReadsToEnd(data)
                      THEN [loaded EXCEPT !.screenshots =
                                Append(@, Attachment(entries, file_path))]
                      ELSE failed
                 ELSE IF EndsWith(file_name, ".webm") \/ EndsWith(file_name, ".mp4")
                 THEN IF ReadsToEnd(data)
                      THEN [loaded EXCEPT !.video =
                                Some(Attachment(entries, file_path))]
                      ELSE failed
                 ELSE IF EndsWith(file_name, ".zip") /\ Contains(file_name, "trace")
                 THEN IF ReadsToEnd(data)
                      THEN [loaded EXCEPT !.trace_file =
                                Some(Attachment(entries, file_path))]
                      ELSE failed
                 ELSE loaded
         IN  FilesLoaded(entries, Tail(files), after)

\* variant: the folder name is searched as it is spelled
StatusOfCaseSensitive(folder_name, markdown_content) ==
    IF \/ Contains(folder_name, "fail")
       \/ Contains(folder_name, "error")
       \/ IsSome(markdown_content)
    THEN "Failed"
    ELSE "Passed"

\* the status load_test_case_from_folder determines
StatusOf(folder_name, markdown_content) ==
    IF \/ Contains(ToLowercase(folder_name), "fail")
       \/ Contains(ToLowercase(folder_name), "error")
       \/ IsSome(markdown_content)
    THEN "Failed"
    ELSE "Passed"

\* the word with its first character in upper case
Capitalized(word) == UpperChar(SubSeq(word, 1, 1)) \o Tail(word)

\* format_test_name
FormatTestName(folder_name) ==
    LET words == SplitWhitespace(ReplaceDashes(folder_name), "")
    IN  Join([i \in 1..Len(words) |-> Capitalized(words[i])])

\* variant: the first line of the text, blank or not
ExtractVeryFirstLine(text) ==
    IF Lines(text) = <<>> THEN None ELSE Some(Trim(Lines(text)[1]))

\* extract_first_line: the first line that is not blank, trimmed
ExtractFirstLine(text) ==
    LET lines == Lines(text)
        filled == {i \in 1..Len(lines) : Trim(lines[i]) # ""}
    IN  IF filled = {} THEN None
        ELSE Some(Trim(lines[CHOOSE i \in filled : \A j \in filled : i <= j]))

\* error_message: from the markdown, if the status is Failed
ErrorMessageOf(status, markdown_content) ==
    IF status = "Failed" /\ IsSome(markdown_content)
    THEN ExtractFirstLine(Unwrap(markdown_content))
    ELSE None

\* load_test_case_from_folder: Ok(TestCase { .. }) or the error of a read
LoadTestCaseFromFolder(entries, folder_name, files) ==
    LET loaded == FilesLoaded(entries, files, NoFilesLoaded)
        status == StatusOf(folder_name, loaded.markdown_content)
    IN  IF ~loaded.ok THEN [ok |-> FALSE]
        ELSE [ok |-> TRUE,
              test_case |->
                  [id |-> folder_name,
                   name |-> FormatTestName(folder_name),
                   status |-> status,
                   markdown_content |-> loaded.markdown_content,
                   screenshots |-> loaded.screenshots,
                   video |-> loaded.video,
                   trace_file |-> loaded.trace_file,
                   duration_ms |-> None,
                   error_message |-> ErrorMessageOf(status, loaded.markdown_content)]]

\* the orders in which `for (folder_name, files) in test_case_folders` may
\* visit the folders (HashMap iteration order is unspecified)
FolderOrders(folders) ==
    {order \in [1..Cardinality(DOMAIN folders) -> DOMAIN folders] :
        \A i, j \in DOMAIN order : order[i] = order[j] => i = j}

\* variant: the first folder that fails to load ends the loop
RECURSIVE TestCasesUntilFailure(_, _, _)
TestCasesUntilFailure(entries, folders, order) ==
    IF order = <<>> THEN <<>>
    ELSE LET loaded == LoadTestCaseFromFolder(entries, Head(order),
                                              folders[Head(order)])
         IN  IF loaded.ok
             THEN <<loaded.test_case>>
                      \o TestCasesUntilFailure(entries, folders, Tail(order))
             ELSE <<>>

\* test_cases after the folders were visited in the given order: a folder
\* that fails to load is skipped
RECURSIVE TestCasesOf(_, _, _)
TestCasesOf(entries, folders, order) ==
    IF order = <<>> THEN <<>>
    ELSE LET loaded == LoadTestCaseFromFolder(entries, Head(order),
                                              folders[Head(order)])
         IN  (IF loaded.ok THEN <<loaded.test_case>> ELSE <<>>)
                 \o TestCasesOf(entries, folders, Tail(order))

\* variant: an archive in which no folder is found is an error
LoadTestCasesFromZipWithFolders(b) ==
    IF ~IsZip(b) \/ TestCaseFolders(b.entries, EmptyMap) = EmptyMap
    THEN {[ok |-> FALSE, test_cases |-> <<>>]}
    ELSE LET folders == TestCaseFolders(b.entries, EmptyMap)
         IN  {[ok |-> TRUE, test_cases |-> TestCasesOf(b.entries, folders, order)] :
                 order \in FolderOrders(folders)}

\* load_test_cases_from_zip: the results it may return for these bytes
LoadTestCasesFromZip(b) ==
    IF ~IsZip(b) THEN {[ok |-> FALSE, test_cases |-> <<>>]}
    ELSE LET folders == TestCaseFolders(b.entries, EmptyMap)
         IN  {[ok |-> TRUE, test_cases |-> TestCasesOf(b.entries, folders, order)] :
                 order \in FolderOrders(folders)}

-----------------------------------------------------------------------------
(* load_trace_from_zip *)

\* Result<TraceModel, LoadError>
OkModel(contexts) == [ok |-> TRUE, contexts |-> contexts, err |-> ""]
Err(e) == [ok |-> FALSE, contexts |-> <<>>, err |-> e]

\* the ContextEntry that parse_trace(&trace_content, network_content) returns,
\* named by the two texts it was called with (Spec is the call itself)
ParseTraceCall(trace_text, network_text) ==
    [trace_content |-> trace_text, network_content |-> network_text]

\* name.starts_with("data/") && name.ends_with(".zip")
IsNestedZipName(name) == StartsWith(name, "data/") /\ EndsWith(name, ".zip")

\* variant: an archive with .trace entries of its own is not a report archive
IsReportArchiveUnlessTraces(entries) ==
    /\ \E i \in 1..Len(entries) : IsNestedZipName(entries[i].name)
    /\ ~\E i \in 1..Len(entries) : EndsWith(entries[i].name, ".trace")

\* is_report_archive
IsReportArchive(entries) ==
    \E i \in 1..Len(entries) : IsNestedZipName(entries[i].name)

\* nested_zips: the indices of the data/*.zip entries, in index order
NestedZips(entries) ==
    SelectSeq([i \in 1..Len(entries) |-> i],
              LAMBDA i : IsNestedZipName(entries[i].name))

\* name.trim_end_matches(".trace")
Ordinal(name) == TrimEndMatches(name, ".trace")

\* trace_files: the ordinal of every entry ending in .trace, in index order
RECURSIVE TraceFiles(_)
TraceFiles(entries) ==
    IF entries = <<>> THEN <<>>
    ELSE (IF EndsWith(Head(entries).name, ".trace")
          THEN <<Ordinal(Head(entries).name)>>
          ELSE <<>>) \o TraceFiles(Tail(entries))

\* read_file_from_archive
ReadFileFromArchive(entries, name) ==
    IF ~HasEntry(entries, name)
    THEN [ok |-> FALSE, content |-> "", err |-> "ZipError"]
    ELSE IF ~ReadsToString(ByName(entries, name).data)
    THEN [ok |-> FALSE, content |-> "", err |-> "IoError"]
    ELSE [ok |-> TRUE, content |-> ByName(entries, name).data.text, err |-> ""]

\* for ordinal in trace_files { .. contexts.push(context) }  Ok(TraceModel { contexts })
RECURSIVE ContextsOfTraceFiles(_, _, _)
ContextsOfTraceFiles(entries, trace_files, contexts) ==
    IF trace_files = <<>> THEN OkModel(contexts)
    ELSE LET ordinal == Head(trace_files)
             trace == ReadFileFromArchive(entries, ordinal \o ".trace")
             network_name == ordinal \o ".network"
             network == ReadFileFromArchive(entries, network_name)
         IN  IF ~trace.ok THEN Err(trace.err)
             ELSE IF HasEntry(entries, network_name) /\ ~network.ok
             THEN Err(network.err)
             ELSE ContextsOfTraceFiles(
                      entries, Tail(trace_files),
                      Append(contexts,
                             ParseTraceCall(trace.content,
                                            IF HasEntry(entries, network_name)
                                            THEN Some(network.content)
                                            ELSE None)))

\* variant: an archive without .trace entries loads as an empty model
LoadSingleTraceArchiveOrEmpty(entries) ==
    ContextsOfTraceFiles(entries, TraceFiles(entries), <<>>)

\* load_single_trace_archive
LoadSingleTraceArchive(entries) ==
    IF TraceFiles(entries) = <<>>
    THEN Err("MissingTraceFile")
    ELSE ContextsOfTraceFiles(entries, TraceFiles(entries), <<>>)

\* activations of load_report_archive the call stack has room for
StackCapacity == 3

\* a load_report_archive activation: its archive, nested_zips, the position
\* of its loop in nested_zips, and all_contexts
ReportFrame(entries) ==
    [archive |-> entries,
     nested_zips |-> NestedZips(entries),
     position |-> 1,
     all_contexts |-> <<>>]

Top == stack[Len(stack)]
Pop == SubSeq(stack, 1, Len(stack) - 1)

\* enum LoadingState
Idle == [type |-> "Idle"]
Loading(progress) == [type |-> "Loading", progress |-> progress]
LoadedTrace(trace_model) == [type |-> "LoadedTrace", model |-> trace_model]
LoadedTestCases(test_cases) == [type |-> "LoadedTestCases", test_cases |-> test_cases]
Error(error) == [type |-> "Error", message |-> error]

\* enum AppMessage, the messages load_file's callback sends; a progress is
\* held in percent
LoadingProgress(progress) == [type |-> "LoadingProgress", progress |-> progress]
TraceLoaded(trace_model) == [type |-> "TraceLoaded", model |-> trace_model]
TestCasesLoaded(test_cases) == [type |-> "TestCasesLoaded", test_cases |-> test_cases]
LoadError(error) == [type |-> "LoadError", error |-> error]

\* App::update on a message of the callback: the state it leaves
Update(msg) ==
    CASE msg.type = "LoadingProgress" -> Loading(msg.progress)
      [] msg.type = "TraceLoaded" -> LoadedTrace(msg.model)
      [] msg.type = "TestCasesLoaded" -> LoadedTestCases(msg.test_cases)
      [] msg.type = "LoadError" -> Error(msg.error)

\* link.send_message(msg): the message is sent and App::update handles it
SendMessage(msg) ==
    /\ message' = Some(msg)
    /\ state' = Update(msg)

\* the application shows the drop zone and a file is at hand, or
\* load_trace_from_zip(bytes) is called from outside the application
InitArchive ==
    /\ ParseTraceStarts
    /\ bytes \in DroppedFiles
    /\ entry_point \in {"load_file", "load_trace_from_zip"}
    /\ arg = bytes
    /\ stack = <<>>
    /\ ret = None
    /\ apc = IF entry_point = "load_file" THEN "idle" ELSE "call"
    /\ message = None
    /\ state = Idle
    /\ NoExport

\* load_file up to the start of the read: state = Loading { progress: 0.0 }
LoadFile ==
    /\ state' = Loading(0)
    /\ apc' = "reading"
    /\ UNCHANGED <<bytes, entry_point, arg, stack, ret, message>>
    /\ UNCHANGED <<parse_vars, export_vars>>

\* the drop zone, rendered in Idle only, emits FilesDropped(files):
\* if let Some(file) = files.first() { self.load_file(ctx, file.clone()) }
FilesDropped ==
    /\ entry_point = "load_file"
    /\ state.type = "Idle"
    /\ \E files \in {<<>>, <<bytes>>} :
          IF files # <<>> THEN LoadFile ELSE UNCHANGED vars

\* the drop zone emits FileSelected(file): self.load_file(ctx, file)
FileSelected ==
    /\ entry_point = "load_file"
    /\ state.type = "Idle"
    /\ LoadFile

\* variant: Try Again brings the drop zone back
TryAgainResets ==
    /\ entry_point = "load_file"
    /\ state.type = "Error"
    /\ state' = Idle
    /\ apc' = "idle"
    /\ UNCHANGED <<bytes, entry_point, arg, stack, ret, message>>
    /\ UNCHANGED <<parse_vars, export_vars>>

\* the Try Again button of the Error view sends FilesDropped(vec![]):
\* files.first() is None and update leaves everything as it is
TryAgain ==
    /\ entry_point = "load_file"
    /\ state.type = "Error"
    /\ UNCHANGED vars

\* read_as_bytes calls back with Err(e): LoadError("Error reading file: ..")
FileReadFails ==
    /\ apc = "reading"
    /\ SendMessage(LoadError("Error reading file"))
    /\ apc' = "unread"
    /\ UNCHANGED <<bytes, entry_point, arg, stack, ret>>
    /\ UNCHANGED <<parse_vars, export_vars>>

\* read_as_bytes calls back with Ok(bytes): LoadingProgress(0.3) is sent
FileRead ==
    /\ apc = "reading"
    /\ SendMessage(LoadingProgress(30))
    /\ apc' = "load_file"
    /\ UNCHANGED <<bytes, entry_point, arg, stack, ret>>
    /\ UNCHANGED <<parse_vars, export_vars>>

\* Ok(test_cases) if !test_cases.test_cases.is_empty() => TestCasesLoaded, return
SendsTestCasesLoaded ==
    /\ apc = "load_file"
    /\ \E loaded \in LoadTestCasesFromZip(bytes) :
          /\ loaded.ok
          /\ loaded.test_cases # <<>>
          /\ SendMessage(TestCasesLoaded(loaded.test_cases))
    /\ apc' = "done"
    /\ UNCHANGED <<bytes, entry_point, arg, stack, ret>>
    /\ UNCHANGED <<parse_vars, export_vars>>

\* Ok(_) | Err(e): "If not test cases, try loading as a trace"
TriesTraceLoader ==
    /\ apc = "load_file"
    /\ \E loaded \in LoadTestCasesFromZip(bytes) :
          ~loaded.ok \/ loaded.test_cases = <<>>
    /\ apc' = "call"
    /\ UNCHANGED <<bytes, entry_point, arg, stack, ret, message, state>>
    /\ UNCHANGED <<parse_vars, export_vars>>

\* ZipArchive::new(cursor).map_err(ZipError)?
OpenFails ==
    /\ apc = "call"
    /\ ~IsZip(arg)
    /\ ret' = Some(Err("ZipError"))
    /\ apc' = "return"
    /\ UNCHANGED <<bytes, entry_point, arg, stack, message, state>>
    /\ UNCHANGED <<parse_vars, export_vars>>

\* not a report archive: load_single_trace_archive(archive)
SingleTraceArchive ==
    /\ apc = "call"
    /\ IsZip(arg)
    /\ ~IsReportArchive(arg.entries)
    /\ ret' = Some(LoadSingleTraceArchive(arg.entries))
    /\ apc' = "return"
    /\ UNCHANGED <<bytes, entry_point, arg, stack, message, state>>
    /\ UNCHANGED <<parse_vars, export_vars>>

\* is_report_archive: load_report_archive(archive) starts
ReportArchive ==
    /\ apc = "call"
    /\ IsZip(arg)
    /\ IsReportArchive(arg.entries)
    /\ Len(stack) < StackCapacity
    /\ stack' = Append(stack, ReportFrame(arg.entries))
    /\ apc' = "nested"
    /\ UNCHANGED <<bytes, entry_point, arg, ret, message, state>>
    /\ UNCHANGED <<parse_vars, export_vars>>

\* the same call when the stack has no room left: the process is aborted
StackExhausted ==
    /\ apc = "call"
    /\ IsZip(arg)
    /\ IsReportArchive(arg.entries)
    /\ Len(stack) = StackCapacity
    /\ apc' = "aborted"
    /\ UNCHANGED <<bytes, entry_point, arg, stack, ret, message, state>>
    /\ UNCHANGED <<parse_vars, export_vars>>

\* the data of the nested archive the loop of the top activation is at
NestedData == Top.archive[Top.nested_zips[Top.position]].data

\* nested_file.read_to_end(&mut nested_bytes).map_err(IoError)?
NestedReadFails ==
    /\ apc = "nested"
    /\ Top.position <= Len(Top.nested_zips)
    /\ ~ReadsToEnd(NestedData)
    /\ ret' = Some(Err("IoError"))
    /\ stack' = Pop
    /\ apc' = "return"
    /\ UNCHANGED <<bytes, entry_point, arg, message, state>>
    /\ UNCHANGED <<parse_vars, export_vars>>

\* load_trace_from_zip(&nested_bytes) is called
NestedCall ==
    /\ apc = "nested"
    /\ Top.position <= Len(Top.nested_zips)
    /\ ReadsToEnd(NestedData)
    /\ arg' = BytesOf(NestedData)
    /\ apc' = "call"
    /\ UNCHANGED <<bytes, entry_point, stack, ret, message, state>>
    /\ UNCHANGED <<parse_vars, export_vars>>

\* variant: the contexts of a nested archive replace those collected so far
AllContextsReplaced(all_contexts, contexts) == contexts

\* all_contexts.extend(trace_model.contexts)
AllContextsExtended(all_contexts, contexts) == all_contexts \o contexts

\* the nested call returned Ok: extend all_contexts, next iteration
NestedLoaded ==
    /\ apc = "return"
    /\ stack # <<>>
    /\ Unwrap(ret).ok
    /\ stack' = [stack EXCEPT ![Len(stack)] =
                    [@ EXCEPT !.all_contexts =
                                  AllContextsExtended(@, Unwrap(ret).contexts),
                              !.position = @ + 1]]
    /\ apc' = "nested"
    /\ UNCHANGED <<bytes, entry_point, arg, ret, message, state>>
    /\ UNCHANGED <<parse_vars, export_vars>>

\* variant: a nested archive that fails to load is skipped
NestedFailureSkipped ==
    /\ apc = "return"
    /\ stack # <<>>
    /\ ~Unwrap(ret).ok
    /\ stack' = [stack EXCEPT ![Len(stack)] = [@ EXCEPT !.position = @ + 1]]
    /\ apc' = "nested"
    /\ UNCHANGED <<bytes, entry_point, arg, ret, message, state>>
    /\ UNCHANGED <<parse_vars, export_vars>>

\* the nested call returned Err: `?` returns it from load_report_archive
NestedFailed ==
    /\ apc = "return"
    /\ stack # <<>>
    /\ ~Unwrap(ret).ok
    /\ stack' = Pop
    /\ UNCHANGED <<bytes, entry_point, arg, ret, apc, message, state>>
    /\ UNCHANGED <<parse_vars, export_vars>>

\* the loop is over: Ok(TraceModel { contexts: all_contexts })
ReportLoaded ==
    /\ apc = "nested"
    /\ Top.position > Len(Top.nested_zips)
    /\ ret' = Some(OkModel(Top.all_contexts))
    /\ stack' = Pop
    /\ apc' = "return"
    /\ UNCHANGED <<bytes, entry_point, arg, message, state>>
    /\ UNCHANGED <<parse_vars, export_vars>>

\* the outermost call returns to its caller
Returns ==
    /\ apc = "return"
    /\ stack = <<>>
    /\ entry_point = "load_trace_from_zip"
    /\ apc' = "done"
    /\ UNCHANGED <<bytes, entry_point, arg, stack, ret, message, state>>
    /\ UNCHANGED <<parse_vars, export_vars>>

\* Ok(model) => link.send_message(AppMessage::TraceLoaded(model))
SendsTraceLoaded ==
    /\ apc = "return"
    /\ stack = <<>>
    /\ entry_point = "load_file"
    /\ Unwrap(ret).ok
    /\ SendMessage(TraceLoaded([contexts |-> Unwrap(ret).contexts]))
    /\ apc' = "done"
    /\ UNCHANGED <<bytes, entry_point, arg, stack, ret>>
    /\ UNCHANGED <<parse_vars, export_vars>>

\* Err(e) => link.send_message(AppMessage::LoadError(..))
SendsLoadError ==
    /\ apc = "return"
    /\ stack = <<>>
    /\ entry_point = "load_file"
    /\ ~Unwrap(ret).ok
    /\ SendMessage(LoadError(Unwrap(ret).err))
    /\ apc' = "done"
    /\ UNCHANGED <<bytes, entry_point, arg, stack, ret>>
    /\ UNCHANGED <<parse_vars, export_vars>>

NextArchive ==
    \/ FilesDropped
    \/ FileSelected
    \/ FileRead
    \/ FileReadFails
    \/ TryAgain
    \/ SendsTestCasesLoaded
    \/ TriesTraceLoader
    \/ SendsTraceLoaded
    \/ SendsLoadError
    \/ OpenFails
    \/ SingleTraceArchive
    \/ ReportArchive
    \/ StackExhausted
    \/ NestedReadFails
    \/ NestedCall
    \/ NestedLoaded
    \/ NestedFailed
    \/ ReportLoaded
    \/ Returns

SpecArchive == InitArchive /\ [][NextArchive]_vars

-----------------------------------------------------------------------------
(* load_test_cases_from_zip called on its own, on test-case bundles *)

\* bytes that are not UTF-8 text, with their content
Bin(content) == [kind |-> "binary", entries |-> <<>>, text |-> content]

\* the entries a test-case bundle is made of
TestCaseEntries ==
    {File("login/report.md", Text("\n Login failed \nat step 2")),
     File("login/second.md", Text("Second report")),
     File("login/Shot.PNG", Bin("png1")),
     File("login/video.webm", Bin("webm")),
     File("login/my-Trace.ZIP", Bin("PK34")),
     File("login/notes.txt", Text("n")),
     File("login/._shot.png", Bin("fork")),
     File("login/", Text("")),
     File("__MACOSX/login/._shot.png", Bin("fork")),
     File("cart-fail/blank.md", Text(" \n")),
     File("cart-fail/shot.jpeg", Corrupt),
     File("cart-fail/broken.md", Bin("x")),
     File("Error_case/pic.jpg", Bin("jpg")),
     File("summary.md", Text("Summary"))}

\* most entries of a test-case bundle
MaxFiles == 2

\* sequences of at most n bundle entries
RECURSIVE BundlesUpTo(_)
BundlesUpTo(n) ==
    IF n = 0 THEN {<<>>}
    ELSE LET shorter == BundlesUpTo(n - 1)
         IN  shorter \cup
             {Append(es, e) : es \in shorter, e \in TestCaseEntries}

\* the bytes load_test_cases_from_zip may be given
TestCaseBundles ==
    {Binary} \cup {Zip(es) : es \in {x \in BundlesUpTo(MaxFiles) : DistinctNames(x)}}

InitTestCases ==
    /\ ParseTraceStarts
    /\ bytes \in TestCaseBundles
    /\ entry_point = "load_test_cases_from_zip"
    /\ arg = bytes
    /\ stack = <<>>
    /\ ret = None
    /\ apc = "call"
    /\ message = None
    /\ state = [type |-> "Idle"]
    /\ NoExport

\* ZipArchive::new(cursor).map_err(ZipError)?
TestCasesOpenFails ==
    /\ apc = "call"
    /\ ~IsZip(bytes)
    /\ ret' = Some([ok |-> FALSE, test_cases |-> <<>>])
    /\ apc' = "done"
    /\ UNCHANGED <<bytes, entry_point, arg, stack, message, state>>
    /\ UNCHANGED <<parse_vars, export_vars>>

\* the folders are grouped and visited: Ok(TestCaseCollection { test_cases })
TestCasesReturned ==
    /\ apc = "call"
    /\ IsZip(bytes)
    /\ \E loaded \in LoadTestCasesFromZip(bytes) : ret' = Some(loaded)
    /\ apc' = "done"
    /\ UNCHANGED <<bytes, entry_point, arg, stack, message, state>>
    /\ UNCHANGED <<parse_vars, export_vars>>

NextTestCases ==
    \/ TestCasesOpenFails
    \/ TestCasesReturned

SpecTestCases == InitTestCases /\ [][NextTestCases]_vars

-----------------------------------------------------------------------------
(* export_to_markdown (src/src/markdown_exporter.rs).  The output String   *)
(* is held as the sequence of the pieces pushed to it; the String is their *)
(* concatenation.  The warning sign of the status text is written [!] and *)
(* a code fence of three grave accents is written ~~~.                     *)

\* an integer below 100 in two digits
Pad2(n) == IF n < 10 THEN "0" \o ToString(n) ELSE ToString(n)

\* DateTime::from_timestamp_millis(ms).format("%Y-%m-%d %H:%M:%S UTC"): the
\* civil date of the day counted from 1970-01-01, then the time of day
FormatDateTime(ms) ==
    LET secs == ms \div 1000
        of_day == secs % 86400
        z == secs \div 86400 + 719468
        era == z \div 146097
        doe == z - era * 146097
        yoe == (doe - doe \div 1460 + doe \div 36524 - doe \div 146096) \div 365
        doy == doe - (365 * yoe + yoe \div 4 - yoe \div 100)
        mp == (5 * doy + 2) \div 153
        day == doy - (153 * mp + 2) \div 5 + 1
        month == IF mp < 10 THEN mp + 3 ELSE mp - 9
        year == yoe + era * 400 + (IF month <= 2 THEN 1 ELSE 0)
        Pad4(n) == IF n < 10 THEN "000" \o ToString(n)
                   ELSE IF n < 100 THEN "00" \o ToString(n)
                   ELSE IF n < 1000 THEN "0" \o ToString(n)
                   ELSE ToString(n)
    IN  Pad4(year) \o "-" \o Pad2(month) \o "-" \o Pad2(day) \o " "
            \o Pad2(of_day \div 3600) \o ":" \o Pad2((of_day % 3600) \div 60) \o ":"
            \o Pad2(of_day % 60) \o " UTC"

\* format!("{:.2}", ms / 1000.0), for a whole number of hundredths of a second
FormatSeconds(ms) ==
    LET hundredths == (IF ms < 0 THEN 0 - ms ELSE ms) \div 10
    IN  (IF ms < 0 THEN "-" ELSE "") \o ToString(hundredths \div 100) \o "."
            \o Pad2(hundredths % 100)

\* export_action
ExportAction(action, index) ==
    LET method == IF IsSome(action.method) THEN Unwrap(action.method)
                  ELSE IF IsSome(action.class) THEN Unwrap(action.class)
                  ELSE action.action_type
        status == IF IsSome(action.error) THEN " [!] FAILED" ELSE ""
        error == Unwrap(action.error)
        \* serde_json::to_string_pretty(&action.params), for a map of one string
        pair == CHOOSE kv \in action.params : TRUE
        json == "{\n  \"" \o pair[1] \o "\": \"" \o pair[2] \o "\"\n}"
        \* for log in &action.log
        RECURSIVE ExportLogs(_)
        ExportLogs(log) ==
            IF log = <<>> THEN <<>>
            ELSE <<"- " \o ToString(Head(log).time) \o "ms: " \o Head(log).message \o "\n">>
                     \o ExportLogs(Tail(log))
    IN  <<"### " \o ToString(index) \o ". " \o method \o status \o "\n\n">>
        \o (IF action.end_time > 0
            THEN <<"**Duration**: " \o ToString(action.end_time - action.start_time)
                       \o "ms  \n">>
            ELSE <<>>)
        \o <<"**Start**: " \o ToString(action.start_time) \o "ms  \n">>
        \o (IF IsSome(action.title)
            THEN <<"**Action**: " \o Unwrap(action.title) \o "  \n">>
            ELSE <<>>)
        \o <<"\n">>
        \o (IF action.params # {}
            THEN <<"**Parameters**:\n\n", "~~~json\n", json, "\n~~~\n\n">>
            ELSE <<>>)
        \o (IF IsSome(action.error)
            THEN <<"**Error**:\n\n", "~~~\n">>
                 \o (IF IsSome(error.message) THEN <<Unwrap(error.message), "\n">> ELSE <<>>)
                 \o (IF IsSome(error.stack)
                     THEN <<"\nStack trace:\n", Unwrap(error.stack), "\n">>
                     ELSE <<>>)
                 \o <<"~~~\n\n">>
            ELSE <<>>)
        \o (IF action.log # <<>>
            THEN <<"**Logs**:\n\n">> \o ExportLogs(action.log) \o <<"\n">>
            ELSE <<>>)
        \o <<"---\n\n">>

HasError(action) == IsSome(action.error)

\* variant: every action is exported, whatever the options say
ActionsToExportAll(ctx, opts) == ctx.actions

\* actions_to_export
ActionsToExport(ctx, opts) ==
    IF opts.errors_only THEN SelectSeq(ctx.actions, HasError) ELSE ctx.actions

\* export_context
ExportContext(ctx, opts) ==
    LET actions_to_export == ActionsToExport(ctx, opts)
        failed_actions == Len(SelectSeq(ctx.actions, HasError))
        \* for (idx, action) in actions_to_export.iter().enumerate(), from idx on
        RECURSIVE ExportActions(_, _)
        ExportActions(actions, idx) ==
            IF actions = <<>> THEN <<>>
            ELSE ExportAction(Head(actions), idx + 1)
                     \o ExportActions(Tail(actions), idx + 1)
        \* for (idx, error) in context.errors.iter().enumerate(), from idx on
        RECURSIVE ExportContextErrors(_, _)
        ExportContextErrors(errors, idx) ==
            IF errors = <<>> THEN <<>>
            ELSE <<"### Error " \o ToString(idx + 1) \o "\n\n", "~~~\n",
                   Head(errors).message, "\n">>
                     \o (IF IsSome(Head(errors).stack)
                         THEN <<"\nStack trace:\n", Unwrap(Head(errors).stack), "\n">>
                         ELSE <<>>)
                     \o <<"~~~\n\n">>
                     \o ExportContextErrors(Tail(errors), idx + 1)
        summary ==
            <<"## Test Information\n\n">>
            \o (IF IsSome(ctx.title)
                THEN <<"- **Title**: " \o Unwrap(ctx.title) \o "\n">>
                ELSE <<>>)
            \o <<"- **Browser**: " \o ctx.browser_name \o "\n">>
            \o (IF IsSome(ctx.platform)
                THEN <<"- **Platform**: " \o Unwrap(ctx.platform) \o "\n">>
                ELSE <<>>)
            \o (IF IsSome(ctx.playwright_version)
                THEN <<"- **Playwright Version**: " \o Unwrap(ctx.playwright_version)
                           \o "\n">>
                ELSE <<>>)
            \o <<"- **Start Time**: " \o FormatDateTime(ctx.wall_time) \o "\n",
                 "- **Duration**: "
                     \o FormatSeconds(ctx.end_time - ctx.start_time) \o "s\n\n",
                 "## Summary\n\n",
                 "- **Total Actions**: " \o ToString(Len(ctx.actions)) \o "\n",
                 "- **Failed Actions**: " \o ToString(failed_actions) \o "\n">>
            \o (IF ctx.errors # <<>>
                THEN <<"- **Context Errors**: " \o ToString(Len(ctx.errors)) \o "\n">>
                ELSE <<>>)
    IN  IF opts.errors_only /\ failed_actions = 0 /\ ctx.errors = <<>>
        THEN summary \o <<"\n*No errors found in this trace.*\n\n">>
        ELSE summary
             \o <<"\n">>
             \o (IF actions_to_export # <<>>
                 THEN <<"## Actions\n\n">> \o ExportActions(actions_to_export, 0)
                 ELSE <<>>)
             \o (IF ctx.errors # <<>>
                 THEN <<"## Context Errors\n\n">> \o ExportContextErrors(ctx.errors, 0)
                 ELSE <<>>)

\* export_to_markdown
ExportToMarkdown(trace_model, opts) ==
    LET contexts == trace_model.contexts
        \* for (idx, context) in model.contexts.iter().enumerate(), from idx on
        RECURSIVE ExportContexts(_)
        ExportContexts(idx) ==
            IF idx >= Len(contexts) THEN <<>>
            ELSE (IF Len(contexts) > 1
                  THEN <<"## Context " \o ToString(idx + 1) \o "\n\n">>
                  ELSE <<>>)
                 \o ExportContext(contexts[idx + 1], opts)
                 \o (IF idx < Len(contexts) - 1 THEN <<"\n---\n\n">> ELSE <<>>)
                 \o ExportContexts(idx + 1)
    IN  <<"# Playwright Trace Report\n\n">> \o ExportContexts(0)

\* the actions a Context handed to the exporter may hold
ExportedActions ==
    {[NewAction([call_id |-> "1", start_time |-> 100, title |-> Some("Navigate to page"),
                 class |-> "Page", method |-> "goto", params |-> {},
                 page_id |-> Some("page1"), parent_id |-> None])
         EXCEPT !.end_time = 600,
                !.error = Some([message |-> Some("Navigation timeout"),
                                stack |-> Some("at Page.goto")])],
     [NewAction([call_id |-> "2", start_time |-> 700, title |-> Some("Click button"),
                 class |-> "Page", method |-> "click",
                 params |-> {<<"selector", "button">>},
                 page_id |-> Some("page1"), parent_id |-> None])
         EXCEPT !.end_time = 800,
                !.log = <<[time |-> 700, message |-> "Starting click"]>>],
     [NewAction([call_id |-> "3", start_time |-> 900, title |-> None,
                 class |-> "Locator", method |-> "fill", params |-> {},
                 page_id |-> None, parent_id |-> Some("2")])
         EXCEPT !.method = None,
                !.error = Some([message |-> None, stack |-> None])]}

\* most actions of a Context handed to the exporter
MaxActions == 2

\* the Contexts handed to the exporter: one as a test run leaves it, one
\* with no metadata, the initial time bounds and a context error
ExportedContexts ==
    LET RECURSIVE ActionListsUpTo(_)
        ActionListsUpTo(n) ==
            IF n = 0 THEN {<<>>}
            ELSE ActionListsUpTo(n - 1)
                     \cup {Append(actions, a) : actions \in ActionListsUpTo(n - 1),
                                                a \in ExportedActions}
    IN  {[InitialContext EXCEPT !.start_time = 0, !.end_time = 1000,
                                !.browser_name = "chromium", !.platform = Some("linux"),
                                !.playwright_version = Some("1.40.0"),
                                !.wall_time = 90061000, !.title = Some("Test"),
                                !.actions = actions] : actions \in ActionListsUpTo(MaxActions)}
            \cup {[InitialContext EXCEPT
                       !.errors = <<[message |-> "Uncaught exception",
                                     stack |-> Some("at test.js:10")]>>,
                       !.actions = actions] : actions \in ActionListsUpTo(MaxActions)}

\* the TraceModels handed to the exporter: none, one or two Contexts
ExportedModels ==
    {[contexts |-> <<>>]}
        \cup {[contexts |-> <<c>>] : c \in ExportedContexts}
        \cup {[contexts |-> <<c, d>>] : c, d \in ExportedContexts}

\* export_to_markdown(&model, &options) is called
InitExport ==
    /\ ParseTraceStarts
    /\ bytes = Binary
    /\ entry_point = "export_to_markdown"
    /\ arg = Binary
    /\ stack = <<>>
    /\ ret = None
    /\ apc = "call"
    /\ message = None
    /\ state = [type |-> "Idle"]
    /\ model \in ExportedModels
    /\ options \in {[errors_only |-> FALSE], [errors_only |-> TRUE]}
    /\ output = <<>>

\* the call returns the output
Exported ==
    /\ entry_point = "export_to_markdown"
    /\ apc = "call"
    /\ output' = ExportToMarkdown(model, options)
    /\ apc' = "done"
    /\ UNCHANGED <<model, options>>
    /\ UNCHANGED <<bytes, entry_point, arg, stack, ret, message, state>>
    /\ UNCHANGED parse_vars

NextExport == Exported

SpecExport == InitExport /\ [][NextExport]_vars

-----------------------------------------------------------------------------
(* The input as the claims see it: positions of the .trace text by the     *)
(* kind of JSON object they hold.                                          *)

TraceIdx == 1..Len(trace_content)
BeforeIdx == {i \in TraceIdx : trace_content[i] \in BeforeLines}
AfterIdx == {j \in TraceIdx : trace_content[j] \in AfterLines}
BeforeIdxOf(c) == {i \in BeforeIdx : trace_content[i].callId = c}
AfterIdxOf(c) == {j \in AfterIdx : trace_content[j].callId = c}

\* the after events that find their callId in the map: a before came earlier
MatchedAfterIdx ==
    {j \in AfterIdx : \E i \in BeforeIdxOf(trace_content[j].callId) : i < j}

\* the last before event of callId c, and the after events that follow it
LastBeforeOf(c) == SetMax(BeforeIdxOf(c))
AfterIdxFollowingLastBefore(c) == {j \in AfterIdxOf(c) : j > LastBeforeOf(c)}

ActionIdx == 1..Len(context.actions)
ActionsOf(c) == {k \in ActionIdx : context.actions[k].call_id = c}

NoCallIdRepeats ==
    \A c \in CallIds : Cardinality(BeforeIdxOf(c)) <= 1 /\ Cardinality(AfterIdxOf(c)) <= 1

\* what a JSON before object says about the action, field by field
MatchesBefore(a, b) ==
    /\ a.start_time = b.startTime
    /\ a.class = <<b.class>>
    /\ a.method = <<b.method>>
    /\ a.title = (IF "title" \in DOMAIN b THEN <<b.title>> ELSE <<>>)
    /\ a.params = (IF "params" \in DOMAIN b THEN b.params ELSE {})
    /\ a.page_id = (IF "pageId" \in DOMAIN b THEN <<b.pageId>> ELSE <<>>)
    /\ a.parent_id = (IF "parentId" \in DOMAIN b THEN <<b.parentId>> ELSE <<>>)

\* what a JSON after object says about the action
MatchesAfter(a, f) ==
    /\ a.end_time = f.endTime
    /\ a.error = (IF "error" \in DOMAIN f
                  THEN <<[message |-> <<f.error.message>>, stack |-> <<>>]>>
                  ELSE <<>>)

-----------------------------------------------------------------------------
(* C1: in every returned Context, Context.actions is sorted ascending by   *)
(* start time: adjacent actions a, b have a.start_time <= b.start_time.    *)
C1_ActionsSortedByStartTime ==
    pc = "done" =>
        \A k \in ActionIdx : k < Len(context.actions) =>
            context.actions[k].start_time <= context.actions[k + 1].start_time

\* two actions with different start times whose before events arrived in
\* the opposite order
C1_Witness ==
    /\ pc = "done"
    /\ Len(context.actions) = 2
    /\ context.actions[1].start_time < context.actions[2].start_time
    /\ \E i \in BeforeIdxOf(context.actions[2].call_id) :
       \E j \in BeforeIdxOf(context.actions[1].call_id) : i < j

-----------------------------------------------------------------------------
(* C2: an after event whose callId has no prior before event creates no    *)
(* Action and leaves the number of Actions unchanged: the step that reads  *)
(* it leaves the action map as it was, and the finalization puts exactly   *)
(* the entries of the map into Context.actions.                            *)
OrphanAfterStep ==
    /\ pc = "trace"
    /\ Len(trace_content') = Len(trace_content) + 1
    /\ Last(trace_content') \in AfterLines
    /\ BeforeIdxOf(Last(trace_content').callId) = {}

C2_OrphanAfterCreatesNoAction ==
    [][ /\ OrphanAfterStep =>
            /\ actions_map' = actions_map
            /\ Cardinality(DOMAIN actions_map') = Cardinality(DOMAIN actions_map)
        /\ (pc # "done" /\ pc' = "done") =>
            /\ Len(context'.actions) = Cardinality(DOMAIN actions_map)
            /\ \A k \in 1..Len(context'.actions) :
                   BeforeIdxOf(context'.actions[k].call_id) # {} ]_vars

\* a returned Context with one Action, from a trace that also holds an
\* after event for a callId that never had a before event
C2_Witness ==
    /\ pc = "done"
    /\ Len(context.actions) = 1
    /\ \E j \in AfterIdx : BeforeIdxOf(trace_content[j].callId) = {}

-----------------------------------------------------------------------------
(* C3 as stated: whenever a before event with callId c is followed by an   *)
(* after event with callId c, the Context has exactly one Action with      *)
(* call_id c, carrying that before's fields and that after's end time and  *)
(* error.                                                                  *)
C3_Original ==
    pc = "done" =>
        \A i \in BeforeIdx : \A j \in AfterIdxOf(trace_content[i].callId) :
            i < j =>
                /\ Cardinality(ActionsOf(trace_content[i].callId)) = 1
                /\ \A k \in ActionsOf(trace_content[i].callId) :
                       /\ MatchesBefore(context.actions[k], trace_content[i])
                       /\ MatchesAfter(context.actions[k], trace_content[j])

(* C3 amended: when the last before event with callId c is followed by an  *)
(* after event with callId c, the Context has exactly one Action with      *)
(* call_id c; it carries the fields of that last before event and the end  *)
(* time and error of the last after event with callId c.                   *)
C3_LastBeforeLastAfter ==
    pc = "done" =>
        \A c \in CallIds :
            (BeforeIdxOf(c) # {} /\ AfterIdxFollowingLastBefore(c) # {}) =>
                /\ Cardinality(ActionsOf(c)) = 1
                /\ \A k \in ActionsOf(c) :
                       /\ MatchesBefore(context.actions[k], trace_content[LastBeforeOf(c)])
                       /\ MatchesAfter(context.actions[k],
                              trace_content[SetMax(AfterIdxFollowingLastBefore(c))])

\* two different before events for one callId, then its after event with an error
C3_Witness ==
    /\ pc = "done"
    /\ \E c \in CallIds :
           /\ Cardinality(BeforeIdxOf(c)) = 2
           /\ \E i \in BeforeIdxOf(c) :
                  trace_content[i].startTime # trace_content[LastBeforeOf(c)].startTime
           /\ \E j \in AfterIdxFollowingLastBefore(c) : "error" \in DOMAIN trace_content[j]

-----------------------------------------------------------------------------
(* C4: a line that fails to decode never aborts reconstruction: the step   *)
(* that reads it leaves the actions, pages, raw events and the context as  *)
(* if the line were absent, and parsing goes on with the next line.        *)
C4_MalformedLineIsSkipped ==
    [][ (/\ pc = "trace"
         /\ Len(trace_content') = Len(trace_content) + 1
         /\ Last(trace_content') \in MalformedLines)
        => /\ UNCHANGED <<actions_map, pages, events, context>>
           /\ pc' = "trace" ]_vars

\* a Context returned from a trace with a malformed line between a before
\* event and its after event: one completed Action, two raw events
C4_Witness ==
    /\ pc = "done"
    /\ Len(trace_content) = 3
    /\ trace_content[1] \in BeforeLines
    /\ trace_content[2] \in MalformedLines
    /\ trace_content[3] \in AfterLines
    /\ Len(context.actions) = 1
    /\ context.actions[1].end_time = trace_content[3].endTime
    /\ Len(context.events) = 2

-----------------------------------------------------------------------------
(* C5 as stated: in every returned Context every Action whose parent_id is *)
(* set has a parent in the same Context, whatever parent references the    *)
(* before events carry.                                                    *)
C5_Original ==
    pc = "done" =>
        \A k \in ActionIdx :
            IsSome(context.actions[k].parent_id) =>
                ActionsOf(Unwrap(context.actions[k].parent_id)) # {}

(* C5 amended: every Action carries the parentId of the last before event  *)
(* with its callId, copied as it is, and that parent resolves in the same  *)
(* Context exactly when the trace holds a before event whose callId is the *)
(* parent id; the loader does not check the reference.                     *)
C5_ParentResolvesIffBeforeExists ==
    pc = "done" =>
        \A k \in ActionIdx :
            LET a == context.actions[k]
                b == trace_content[LastBeforeOf(a.call_id)]
            IN  /\ a.parent_id = (IF "parentId" \in DOMAIN b THEN <<b.parentId>> ELSE <<>>)
                /\ IsSome(a.parent_id) =>
                       (ActionsOf(Unwrap(a.parent_id)) # {}
                            <=> BeforeIdxOf(Unwrap(a.parent_id)) # {})

\* a child whose parent is another Action of the Context
C5_Witness ==
    /\ pc = "done"
    /\ \E k \in ActionIdx : \E p \in ActionIdx :
           /\ k # p
           /\ context.actions[k].parent_id = <<context.actions[p].call_id>>

-----------------------------------------------------------------------------
(* C6: in every returned Context no two entries of Context.actions have    *)
(* the same call_id, even when the trace holds several before events with  *)
(* the same callId.                                                        *)
C6_CallIdsUnique ==
    pc = "done" =>
        \A k \in ActionIdx : \A m \in ActionIdx :
            context.actions[k].call_id = context.actions[m].call_id => k = m

\* two before events with one callId and a before event with another
C6_Witness ==
    /\ pc = "done"
    /\ Len(context.actions) = 2
    /\ \E c \in CallIds : Cardinality(BeforeIdxOf(c)) = 2

-----------------------------------------------------------------------------
(* C7 as stated: every Action whose end time was set by an after event has *)
(* end_time >= start_time.                                                 *)
C7_Original ==
    pc = "done" =>
        \A k \in ActionIdx :
            AfterIdxFollowingLastBefore(context.actions[k].call_id) # {} =>
                context.actions[k].end_time >= context.actions[k].start_time

(* C7 amended: for an Action whose end time was set by an after event,     *)
(* end_time >= start_time holds exactly when the endTime of the last after *)
(* event applied to it is not less than the startTime of the before event  *)
(* that created it; the loader copies both and does not order them.        *)
C7_EndNotBeforeStartIffInput ==
    pc = "done" =>
        \A k \in ActionIdx :
            LET a == context.actions[k]
                after == AfterIdxFollowingLastBefore(a.call_id)
            IN  after # {} =>
                    ((a.end_time >= a.start_time)
                        <=> (trace_content[SetMax(after)].endTime
                                >= trace_content[LastBeforeOf(a.call_id)].startTime))

\* a completed Action that ends before it starts
C7_Witness ==
    /\ pc = "done"
    /\ \E k \in ActionIdx :
           /\ AfterIdxFollowingLastBefore(context.actions[k].call_id) # {}
           /\ context.actions[k].end_time < context.actions[k].start_time

-----------------------------------------------------------------------------
(* C8 as stated: Context.start_time is the minimum start_time over the     *)
(* Actions of Context.actions, taken together with the monotonic or wall   *)
(* origin of the context-options events when there are any (the statement  *)
(* is taken to hold when it holds under any of these readings).            *)
ActionStartTimes == {context.actions[k].start_time : k \in ActionIdx}
ContextOptionsIdx == {i \in TraceIdx : trace_content[i] \in ContextOptionsLines}
MonotonicOrigins == {trace_content[i].monotonicTime : i \in ContextOptionsIdx}
WallOrigins == {trace_content[i].wallTime : i \in ContextOptionsIdx}

C8_Original ==
    (pc = "done" /\ ActionStartTimes # {}) =>
        \/ context.start_time = SetMin(ActionStartTimes)
        \/ context.start_time = SetMin(ActionStartTimes \cup MonotonicOrigins)
        \/ context.start_time = SetMin(ActionStartTimes \cup WallOrigins)

(* C8 amended: Context.start_time is the minimum startTime over all the    *)
(* before events decoded from the trace, those whose Action was later      *)
(* replaced by a before event with the same callId included, and f64::MAX  *)
(* when there is none; context-options events do not contribute.  It       *)
(* equals the minimum start_time over Context.actions when no callId       *)
(* repeats.                                                                *)
C8_StartTimeIsMinOverBeforeEvents ==
    pc = "done" =>
        /\ context.start_time =
               SetMin({trace_content[i].startTime : i \in BeforeIdx} \cup {F64MAX})
        /\ (NoCallIdRepeats /\ ActionStartTimes # {}) =>
               context.start_time = SetMin(ActionStartTimes)

\* a context-options event with an earlier monotonic origin, and an Action
\* that replaced an earlier-starting one with the same callId
C8_Witness ==
    /\ pc = "done"
    /\ ActionStartTimes # {}
    /\ MonotonicOrigins # {}
    /\ SetMin(MonotonicOrigins) < context.start_time
    /\ context.start_time < SetMin(ActionStartTimes)

-----------------------------------------------------------------------------
(* C9 as stated: Context.end_time is the maximum end_time over the Actions *)
(* of Context.actions, after any sequence of before and after events.      *)
ActionEndTimes == {context.actions[k].end_time : k \in ActionIdx}

C9_Original ==
    (pc = "done" /\ ActionEndTimes # {}) =>
        context.end_time = SetMax(ActionEndTimes)

(* C9 amended: Context.end_time is the maximum endTime over the after      *)
(* events that found an Action with their callId in progress (a before     *)
(* event with that callId came earlier), and 0 when there is none.  It     *)
(* equals the maximum end_time over Context.actions when no callId has a   *)
(* repeated before or after event.                                         *)
C9_EndTimeIsMaxOverMatchedAfterEvents ==
    pc = "done" =>
        /\ context.end_time =
               SetMax({trace_content[j].endTime : j \in MatchedAfterIdx} \cup {0})
        /\ (NoCallIdRepeats /\ ActionEndTimes # {}) =>
               context.end_time = SetMax(ActionEndTimes)

\* an Action completed twice, the later after event carrying the earlier
\* end time: the Context ends after its only Action
C9_Witness ==
    /\ pc = "done"
    /\ Len(context.actions) = 1
    /\ context.actions[1].end_time > 0
    /\ context.end_time > context.actions[1].end_time

-----------------------------------------------------------------------------
(* C10: the time bounds of a returned Context encompass its actions: every *)
(* Action has start_time >= Context.start_time and, if its end_time > 0,   *)
(* end_time <= Context.end_time.                                           *)
C10_BoundsEncompassActions ==
    pc = "done" =>
        \A k \in ActionIdx :
            /\ context.actions[k].start_time >= context.start_time
            /\ context.actions[k].end_time > 0 =>
                   context.actions[k].end_time <= context.end_time

\* two Actions, the later one completed and starting after the Context does
C10_Witness ==
    /\ pc = "done"
    /\ Len(context.actions) = 2
    /\ context.actions[2].start_time > context.start_time
    /\ context.actions[2].end_time > 0
    /\ context.actions[1].end_time = 0

-----------------------------------------------------------------------------
(* C11: loading is deterministic: two loads of the same bytes give equal   *)
(* models, the order of Context.actions and Context.pages included.  For   *)
(* parse_trace: from any state of the parse, every Context the             *)
(* finalization can return is the same one.                                *)
FinalizeOutcomes ==
    {Finalized(drained, drained_pages) :
        drained \in IntoValuesOrders(actions_map),
        drained_pages \in IntoValuesOrders(pages)}

C11_LoadIsDeterministic ==
    pc \in {"trace", "network"} => Cardinality(FinalizeOutcomes) = 1

-----------------------------------------------------------------------------
(* C12: the finalization sort is stable with respect to event order: two   *)
(* Actions with equal start_time appear in Context.actions in the order in *)
(* which their before events were inserted (taken to hold when it holds    *)
(* for the first or for the last before event of each callId).             *)
C12_TiesInInsertionOrder ==
    pc = "done" =>
        \A k \in ActionIdx : \A m \in ActionIdx :
            (k < m /\ context.actions[k].start_time = context.actions[m].start_time) =>
                \/ SetMin(BeforeIdxOf(context.actions[k].call_id))
                       < SetMin(BeforeIdxOf(context.actions[m].call_id))
                \/ LastBeforeOf(context.actions[k].call_id)
                       < LastBeforeOf(context.actions[m].call_id)

-----------------------------------------------------------------------------
(* C13: Context.events holds every successfully decoded event of every     *)
(* kind in arrival order: the decoded lines of the .trace text in file     *)
(* order, then the decoded lines of the .network text in file order,       *)
(* nothing else and nothing omitted.                                       *)
Decodable(lines) ==
    SelectSeq(lines, LAMBDA line : line \notin MalformedLines \cup {BlankLine})

\* the event is the decoding of the JSON object
EventMatchesLine(ev, line) ==
    /\ ev.type = (IF line.type = "console" THEN "Other" ELSE line.type)
    /\ "callId" \in DOMAIN line => ev.call_id = line.callId
    /\ "startTime" \in DOMAIN line => ev.start_time = line.startTime
    /\ "endTime" \in DOMAIN line => ev.end_time = line.endTime
    /\ "method" \in DOMAIN line => ev.method = line.method
    /\ "browserName" \in DOMAIN line => ev.browser_name = line.browserName
    /\ "sha1" \in DOMAIN line => ev.sha1 = line.sha1

C13_EventsInArrivalOrder ==
    pc = "done" =>
        LET expected == Decodable(trace_content) \o Decodable(network_content)
        IN  /\ Len(context.events) = Len(expected)
            /\ \A k \in 1..Len(expected) : EventMatchesLine(context.events[k], expected[k])

\* a trace with an inert event and a malformed line, and a network text
\* with a decodable line: two raw events, the network one last
C13_Witness ==
    /\ pc = "done"
    /\ Len(trace_content) = 2
    /\ trace_content[1] \in MalformedLines
    /\ trace_content[2] \in {InputLine, ConsoleLine}
    /\ network_content = <<BeforeGoto("c2", 1)>>
    /\ Len(context.events) = 2
    /\ context.events[2].type = "before"

-----------------------------------------------------------------------------
(* C14: an event of an unknown type decodes to the inert Other variant,    *)
(* and processing an input or Other event changes no reconstruction state  *)
(* (actions, pages, context metadata, time bounds): it is only appended to *)
(* the raw event sequence.                                                 *)
C14_InputAndOtherAreInert ==
    [][ (/\ pc = "trace"
         /\ Len(trace_content') = Len(trace_content) + 1
         /\ Last(trace_content') \in {InputLine, ConsoleLine})
        => /\ UNCHANGED <<actions_map, pages, context>>
           /\ Len(events') = Len(events) + 1
           /\ SubSeq(events', 1, Len(events)) = events
           /\ Last(events').type =
                  (IF Last(trace_content') = ConsoleLine THEN "Other" ELSE "input") ]_vars

\* an unknown event and an input event after a before event: one Action,
\* three raw events
C14_Witness ==
    /\ pc = "done"
    /\ Len(trace_content) = 3
    /\ trace_content[1] \in BeforeLines
    /\ trace_content[2] = ConsoleLine
    /\ trace_content[3] = InputLine
    /\ Len(context.actions) = 1
    /\ Len(context.events) = 3
    /\ context.events[2] = OtherEvent

-----------------------------------------------------------------------------
(* The archive as the claims see it *)

EntryIdx(entries) == 1..Len(entries)

\* the entries matching data/*.zip, and those ending in .trace
NestedZipIdx(entries) == {i \in EntryIdx(entries) : IsNestedZipName(entries[i].name)}
TraceEntryIdx(entries) == {i \in EntryIdx(entries) : EndsWith(entries[i].name, ".trace")}

\* the texts of an archive's own .trace entries
OwnTraceTexts(entries) == {entries[i].data.text : i \in TraceEntryIdx(entries)}

Returned == Unwrap(ret)
HasReturned == apc = "done" /\ IsSome(ret)

\* C15: the report-bundle rule is checked first. A call on an archive with a
\* data/*.zip entry starts the nested-archive loop (it returns nothing by
\* itself, whatever .trace entries the archive has), and the model that loop
\* returns holds no Context parsed from the archive's own .trace entries.
C15_ReportRuleFirst ==
    [][/\ (apc = "call" /\ IsZip(arg) /\ NestedZipIdx(arg.entries) # {})
            => (apc' \in {"nested", "aborted"} /\ ret' = ret)
       /\ (apc = "nested" /\ apc' = "return" /\ Unwrap(ret').ok)
            => \A k \in 1..Len(Unwrap(ret').contexts) :
                   Unwrap(ret').contexts[k].trace_content
                       \notin OwnTraceTexts(Top.archive)]_vars

\* a report archive with .trace entries of its own has been loaded
C15_Witness ==
    /\ HasReturned
    /\ Returned.ok
    /\ Returned.contexts # <<>>
    /\ IsZip(bytes)
    /\ NestedZipIdx(bytes.entries) # {}
    /\ TraceEntryIdx(bytes.entries) # {}

\* the contexts obtained by loading an archive on its own: those of its
\* .trace entries, or for a report archive those of its nested archives
RECURSIVE IndependentContexts(_), NestedContextsFrom(_, _)
NestedContextsFrom(entries, i) ==
    IF i > Len(entries) THEN <<>>
    ELSE (IF IsNestedZipName(entries[i].name)
          THEN IndependentContexts(BytesOf(entries[i].data))
          ELSE <<>>) \o NestedContextsFrom(entries, i + 1)

IndependentContexts(b) ==
    IF NestedZipIdx(b.entries) = {}
    THEN LoadSingleTraceArchive(b.entries).contexts
    ELSE NestedContextsFrom(b.entries, 1)

\* a report archive has been loaded
ReportHasLoaded ==
    /\ HasReturned
    /\ Returned.ok
    /\ IsZip(bytes)
    /\ NestedZipIdx(bytes.entries) # {}

\* C17: the contexts of a loaded report archive are the concatenation, in
\* entry order of its data/*.zip entries, of the contexts each nested archive
\* yields when loaded on its own.
C17_ContextsAreConcatenation ==
    ReportHasLoaded => Returned.contexts = NestedContextsFrom(bytes.entries, 1)

\* two copies of one single-trace archive have been loaded from a report
\* archive, giving twice the contexts of one copy
C17_Witness ==
    /\ ReportHasLoaded
    /\ \E i, j \in NestedZipIdx(bytes.entries) :
          /\ i < j
          /\ NestedZipIdx(bytes.entries) = {i, j}
          /\ bytes.entries[i].data = bytes.entries[j].data
          /\ IndependentContexts(bytes.entries[i].data) # <<>>
          /\ Returned.contexts = IndependentContexts(bytes.entries[i].data)
                                     \o IndependentContexts(bytes.entries[j].data)

\* loading these bytes on their own returns an error (a copy of the file
\* under load gives no verdict: its load is the load in progress)
RECURSIVE FailsToLoad(_)
FailsToLoad(data) ==
    CASE data.kind = "self" -> FALSE
      [] data.kind # "zip" -> TRUE
      [] NestedZipIdx(data.entries) = {} -> ~LoadSingleTraceArchive(data.entries).ok
      [] OTHER -> \E i \in NestedZipIdx(data.entries) :
                      FailsToLoad(data.entries[i].data)

\* the data/*.zip entries of the file under load that fail on their own
FailingNestedIdx ==
    {i \in NestedZipIdx(bytes.entries) : FailsToLoad(bytes.entries[i].data)}

\* C18: loading a report archive is all-or-nothing. When one of its nested
\* data/*.zip archives fails to load, load_trace_from_zip returns no
\* TraceModel: what it returns is an error.
C18_NestedFailureFailsTheLoad ==
    (IsZip(bytes) /\ FailingNestedIdx # {})
        => ((IsSome(ret) /\ stack = <<>> /\ apc \in {"return", "done"})
                => (~Returned.ok /\ Returned.contexts = <<>>))

\* a report archive whose failing nested archive follows one that loaded
\* with contexts has been answered with an error
C18_Witness ==
    /\ HasReturned
    /\ ~Returned.ok
    /\ IsZip(bytes)
    /\ \E i, j \in NestedZipIdx(bytes.entries) :
          /\ i < j
          /\ FailingNestedIdx = {j}
          /\ IndependentContexts(bytes.entries[i].data) # <<>>

\* C19: recursion into nested archives is bounded. load_trace_from_zip never
\* runs out of stack: an archive nested deeper than the limit, a copy of
\* itself included, is answered with the ArchiveTooDeep error, so every call
\* that has started a nested-archive loop is still running or has returned.
C19_RecursionIsBounded == apc # "aborted"

\* the <ordinal> of an entry named <ordinal>.trace
OrdinalOfEntry(name) == StripSuffixOnce(name, ".trace")

\* the text of <ordinal>.network in the archive, if it has that entry
NetworkTextOf(entries, ordinal) ==
    LET with_name == {j \in EntryIdx(entries) :
                         entries[j].name = ordinal \o ".network"}
    IN  IF with_name = {} THEN None
        ELSE Some(entries[CHOOSE j \in with_name : TRUE].data.text)

\* one Context per .trace entry from position i on, in entry order, each
\* with the network text of its own ordinal
RECURSIVE ContextPerTraceEntry(_, _)
ContextPerTraceEntry(entries, i) ==
    IF i > Len(entries) THEN <<>>
    ELSE (IF i \in TraceEntryIdx(entries)
          THEN <<[trace_content |-> entries[i].data.text,
                  network_content |->
                      NetworkTextOf(entries, OrdinalOfEntry(entries[i].name))]>>
          ELSE <<>>) \o ContextPerTraceEntry(entries, i + 1)

\* a single-trace archive whose entries are all readable text
ReadableSingleTrace ==
    /\ IsZip(bytes)
    /\ NestedZipIdx(bytes.entries) = {}
    /\ TraceEntryIdx(bytes.entries) # {}
    /\ \A i \in EntryIdx(bytes.entries) : bytes.entries[i].data.kind = "text"

\* C20: for a single-trace archive every entry <ordinal>.trace produces
\* exactly one Context, the contexts are in the order of the .trace entries
\* in the archive, and the text of <ordinal>.network goes to the Context of
\* the same ordinal only.
C20_OneContextPerTraceEntry ==
    (ReadableSingleTrace /\ HasReturned)
        => /\ Returned.ok
           /\ Returned.contexts = ContextPerTraceEntry(bytes.entries, 1)

\* C16: an archive with no data/*.zip entry and at least one entry ending in
\* .trace is a single trace: when the application has finished loading it,
\* the message it sent is TraceLoaded with a TraceModel, never a test-case
\* collection.
C16_SingleTraceIsTraceLoaded ==
    (entry_point = "load_file" /\ apc = "done" /\ ReadableSingleTrace)
        => /\ IsSome(message)
           /\ Unwrap(message).type = "TraceLoaded"

\* a well-formed ZIP with no data/*.zip entry and no entry ending in .trace
HasNoTraceAtAll ==
    /\ IsZip(bytes)
    /\ NestedZipIdx(bytes.entries) = {}
    /\ TraceEntryIdx(bytes.entries) = {}

\* the outermost load_trace_from_zip call has a result
OutermostReturned == IsSome(ret) /\ stack = <<>> /\ apc \in {"return", "done"}

\* C21: load_trace_from_zip on a well-formed ZIP that has no data/*.zip
\* entry and no entry ending in .trace returns the MissingTraceFile error
\* and no TraceModel.
C21_NoTraceIsMissingTraceFile ==
    (HasNoTraceAtAll /\ OutermostReturned)
        => /\ ~Returned.ok
           /\ Returned.err = "MissingTraceFile"
           /\ Returned.contexts = <<>>

\* an archive whose data/ folder holds only a non-zip file has been refused
C21_Witness ==
    /\ HasNoTraceAtAll
    /\ HasReturned
    /\ \E i \in EntryIdx(bytes.entries) :
          /\ StartsWith(bytes.entries[i].name, "data/")
          /\ ~EndsWith(bytes.entries[i].name, "/")
    /\ Returned.err = "MissingTraceFile"

-----------------------------------------------------------------------------
(* The test-case bundle as the claims see it *)

\* load_test_cases_from_zip has returned for a well-formed ZIP
BundleLoaded == apc = "done" /\ IsSome(ret) /\ IsZip(bytes)

\* the first path segment of an entry
FolderOfEntry(e) == FirstSegment(e.name)

\* reading the entry fails: its data cannot be decompressed, or it is a
\* markdown file that is not UTF-8 text
FailsToRead(e) ==
    \/ e.data.kind = "corrupt"
    \/ EndsWith(ToLowercase(e.name), ".md") /\ e.data.kind # "text"

\* the folders with an entry whose read fails
FailingFolders ==
    {FolderOfEntry(bytes.entries[i]) :
        i \in {j \in EntryIdx(bytes.entries) : FailsToRead(bytes.entries[j])}}

\* the bundle without the entries of its failing folders
WithoutFailingFolders ==
    Zip(SelectSeq(bytes.entries, LAMBDA e : FolderOfEntry(e) \notin FailingFolders))

TestCaseIdx == 1..Len(Returned.test_cases)
TestCaseAt(k) == Returned.test_cases[k]

\* the entries of the bundle whose first path segment is the folder
EntriesOfFolder(folder) ==
    SelectSeq(bytes.entries, LAMBDA e : FolderOfEntry(e) = folder)

\* the folder holds a markdown file
HasMarkdown(folder) ==
    \E i \in 1..Len(EntriesOfFolder(folder)) :
        EndsWith(ToLowercase(EntriesOfFolder(folder)[i].name), ".md")

\* the folder name says failure, in any spelling of fail or error
NameSaysFailed(folder) ==
    \/ Contains(ToLowercase(folder), "fail")
    \/ Contains(ToLowercase(folder), "error")

\* C23: a TestCase has status Failed exactly when its folder name contains
\* "fail" or "error" in any letter case or the folder holds a markdown
\* report; otherwise it is Passed. Skipped and Pending are never produced.
C23_StatusFromNameOrMarkdown ==
    (BundleLoaded /\ Returned.ok)
        => \A k \in TestCaseIdx :
              /\ TestCaseAt(k).status \in {"Failed", "Passed"}
              /\ TestCaseAt(k).status = "Failed"
                     <=> (NameSaysFailed(TestCaseAt(k).id)
                              \/ HasMarkdown(TestCaseAt(k).id))

\* a folder named with a capitalised Error and no markdown is Failed, next
\* to a Passed folder
C23_Witness ==
    /\ BundleLoaded
    /\ Returned.ok
    /\ \E k, l \in TestCaseIdx :
          /\ TestCaseAt(k).status = "Failed"
          /\ ~Contains(TestCaseAt(k).id, "error")
          /\ ~HasMarkdown(TestCaseAt(k).id)
          /\ TestCaseAt(l).status = "Passed"

\* C24: a TestCase's error_message is the first non-blank line of its
\* markdown report, trimmed, and only a Failed TestCase has one; without a
\* markdown report, or with a report of blank lines only, there is none.
C24_ErrorMessageIsFirstLine ==
    (BundleLoaded /\ Returned.ok)
        => \A k \in TestCaseIdx :
              LET tc == TestCaseAt(k)
                  lines == IF IsSome(tc.markdown_content)
                           THEN Lines(Unwrap(tc.markdown_content))
                           ELSE <<>>
                  filled == {i \in 1..Len(lines) : Trim(lines[i]) # ""}
              IN  /\ IsSome(tc.error_message) => tc.status = "Failed"
                  /\ filled = {} => tc.error_message = None
                  /\ filled # {} =>
                        \E i \in filled :
                            /\ \A j \in filled : i <= j
                            /\ tc.error_message = Some(Trim(lines[i]))
                            /\ ~IsWhitespace(SubSeq(Unwrap(tc.error_message), 1, 1))

\* a report that begins with a blank line has given its second line,
\* trimmed, as the error message
C24_Witness ==
    /\ BundleLoaded
    /\ Returned.ok
    /\ \E k \in TestCaseIdx :
          /\ TestCaseAt(k).markdown_content = Some("\n Login failed \nat step 2")
          /\ TestCaseAt(k).error_message = Some("Login failed")

\* the markdown files of a folder, in the order of the folder's file list
MarkdownEntriesOf(folder) ==
    SelectSeq(EntriesOfFolder(folder),
              LAMBDA e : EndsWith(ToLowercase(e.name), ".md"))

\* C25: when a folder holds several .md files, the markdown report of its
\* TestCase is the content of the first .md file of the folder's file list;
\* later .md files do not replace it.
C25_FirstMarkdownWins ==
    (BundleLoaded /\ Returned.ok)
        => \A k \in TestCaseIdx :
              MarkdownEntriesOf(TestCaseAt(k).id) # <<>>
                  => TestCaseAt(k).markdown_content =
                         Some(MarkdownEntriesOf(TestCaseAt(k).id)[1].data.text)

\* an entry the grouping is to ignore: a directory, an entry under a
\* __MACOSX directory, or a file whose name starts with '.'
RECURSIVE PathSegments(_)
PathSegments(path) ==
    IF Slashes(path) = {} THEN <<path>>
    ELSE <<FirstSegment(path)>>
             \o PathSegments(SubSeq(path, Len(FirstSegment(path)) + 2, Len(path)))

IsToBeIgnored(name) ==
    \/ EndsWith(name, "/")
    \/ \E i \in 1..(Len(PathSegments(name)) - 1) : PathSegments(name)[i] = "__MACOSX"
    \/ StartsWith(LastSegment(name), ".")

\* the bundle without the entries that are to be ignored
WithoutIgnoredEntries ==
    Zip(SelectSeq(bytes.entries, LAMBDA e : ~IsToBeIgnored(e.name)))

\* C26: grouping ignores directory entries, entries under a __MACOSX
\* directory and entries whose file name starts with '.', wherever in the
\* path: what is returned is what may be returned for the bundle without
\* them, so none of them makes a group or adds a report or an attachment.
C26_HiddenEntriesAreIgnored ==
    (BundleLoaded /\ Returned.ok)
        => Returned \in LoadTestCasesFromZip(WithoutIgnoredEntries)


\* C27: load_test_cases_from_zip on a well-formed ZIP with zero entries
\* returns Ok with an empty TestCaseCollection, not an error.
C27_EmptyZipIsEmptyCollection ==
    (BundleLoaded /\ bytes.entries = <<>>)
        => Returned = [ok |-> TRUE, test_cases |-> <<>>]

C27_Witness ==
    /\ BundleLoaded
    /\ bytes = Zip(<<>>)
    /\ Returned.ok
    /\ Returned.test_cases = <<>>


\* the first path segments of the entries that are not to be ignored
FoldersOfKeptEntries ==
    {FolderOfEntry(bytes.entries[i]) :
        i \in {j \in EntryIdx(bytes.entries) : ~IsToBeIgnored(bytes.entries[j].name)}}

\* C28: at most one TestCase per top-level folder: the ids of the returned
\* TestCases are pairwise distinct, each id is the first path segment of
\* entries of the bundle that are not ignored, and when every read succeeds
\* there are as many TestCases as distinct first segments among the entries
\* that are not ignored.
C28_OneTestCasePerFolder ==
    (BundleLoaded /\ Returned.ok)
        => /\ \A k, l \in TestCaseIdx :
                  TestCaseAt(k).id = TestCaseAt(l).id => k = l
           /\ \A k \in TestCaseIdx : TestCaseAt(k).id \in FoldersOfKeptEntries
           /\ FailingFolders = {}
                  => Len(Returned.test_cases) = Cardinality(FoldersOfKeptEntries)


\* extension -> MIME type, for each slot of a TestCase
ScreenshotTypes == {<<".png", "image/png">>, <<".jpg", "image/jpeg">>,
                    <<".jpeg", "image/jpeg">>}
VideoTypes == {<<".webm", "video/webm">>, <<".mp4", "video/mp4">>}
TraceFileTypes == {<<".zip", "application/zip">>}

\* the attachment was made from a file of the folder whose lower-cased name
\* has an extension of the table: it has the MIME type the table gives the
\* extension, and the number of bytes of the file
IsRouted(folder, attachment, types) ==
    /\ \E type \in types :
          /\ EndsWith(ToLowercase(attachment.name), type[1])
          /\ attachment.mime_type = type[2]
    /\ \E i \in 1..Len(EntriesOfFolder(folder)) :
          LET e == EntriesOfFolder(folder)[i]
          IN  /\ LastSegment(e.name) = attachment.name
              /\ attachment.size_bytes = Some(Len(e.data.text))

\* C29: files are routed by lower-cased extension and the MIME type follows
\* from it: every screenshot is a .png/.jpg/.jpeg file with image/png or
\* image/jpeg, a video is a .webm/.mp4 file with video/webm or video/mp4, a
\* trace attachment is a .zip file whose name contains "trace" with
\* application/zip, each attachment records the byte size of its file, and
\* no attachment comes from a file with another extension.
C29_AttachmentsFollowExtension ==
    (BundleLoaded /\ Returned.ok)
        => \A k \in TestCaseIdx :
              LET tc == TestCaseAt(k)
              IN  /\ \A i \in 1..Len(tc.screenshots) :
                        IsRouted(tc.id, tc.screenshots[i], ScreenshotTypes)
                  /\ IsSome(tc.video)
                        => IsRouted(tc.id, Unwrap(tc.video), VideoTypes)
                  /\ IsSome(tc.trace_file)
                        => /\ IsRouted(tc.id, Unwrap(tc.trace_file), TraceFileTypes)
                           /\ Contains(ToLowercase(Unwrap(tc.trace_file).name), "trace")

\* a folder with an upper-case .PNG file and a .txt file has been loaded: the
\* one attachment is the screenshot, of 4 bytes
C29_Witness ==
    /\ BundleLoaded
    /\ bytes = Zip(<<File("login/Shot.PNG", Bin("png1")),
                     File("login/notes.txt", Text("n"))>>)
    /\ Len(Returned.test_cases) = 1
    /\ Len(TestCaseAt(1).screenshots) = 1
    /\ TestCaseAt(1).screenshots[1].name = "Shot.PNG"
    /\ TestCaseAt(1).screenshots[1].mime_type = "image/png"
    /\ TestCaseAt(1).screenshots[1].size_bytes = Some(4)
    /\ TestCaseAt(1).video = None
    /\ TestCaseAt(1).trace_file = None


-----------------------------------------------------------------------------
(* C30 as stated: an Action created by a before event is never deleted: it *)
(* is in the final Context.actions with the end time and error that its    *)
(* after event attached, whatever follows in the trace, a later before     *)
(* event with the same callId included.                                    *)
AfterIdxFollowing(i) == {j \in AfterIdxOf(trace_content[i].callId) : j > i}

C30_Original ==
    pc = "done" =>
        \A i \in BeforeIdx :
            /\ ActionsOf(trace_content[i].callId) # {}
            /\ AfterIdxFollowing(i) # {} =>
                   \E k \in ActionsOf(trace_content[i].callId) :
                       MatchesAfter(context.actions[k],
                                    trace_content[SetMax(AfterIdxFollowing(i))])

(* C30 amended: a callId that had a before event keeps an Action while the *)
(* trace is read and has exactly one Action in the final Context.actions,  *)
(* whatever follows. That Action carries the end time and error of the     *)
(* last after event that follows the last before event of the callId, and  *)
(* end time 0 and no error when none follows it: a later before event with *)
(* the same callId replaces the Action and what an after had attached.     *)
C30_ActionKeptButReplaced ==
    \A c \in CallIds :
        BeforeIdxOf(c) # {} =>
            /\ pc # "done" => c \in DOMAIN actions_map
            /\ pc = "done" =>
                   /\ Cardinality(ActionsOf(c)) = 1
                   /\ \A k \in ActionsOf(c) :
                          IF AfterIdxFollowingLastBefore(c) = {}
                          THEN /\ context.actions[k].end_time = 0
                               /\ context.actions[k].error = None
                          ELSE MatchesAfter(context.actions[k],
                                   trace_content[SetMax(AfterIdxFollowingLastBefore(c))])

\* a before event, its after event, then a second before event with the
\* same callId: the Action is there, without the end time the after attached
C30_Witness ==
    /\ pc = "done"
    /\ \E c \in CallIds :
           /\ \E i \in BeforeIdxOf(c) : \E j \in AfterIdxOf(c) :
                  /\ i < j
                  /\ j < LastBeforeOf(c)
                  /\ trace_content[j].endTime # 0
           /\ AfterIdxFollowingLastBefore(c) = {}
           /\ \E k \in ActionsOf(c) : context.actions[k].end_time = 0


-----------------------------------------------------------------------------
(* C31 as stated: at most one after event is applied per before event:     *)
(* once a matching after event has set an Action's end time and error, a   *)
(* later after event with the same callId does not change them, so the     *)
(* Action carries those of the first after event that follows its before.  *)
C31_Original ==
    pc = "done" =>
        \A c \in CallIds :
            (BeforeIdxOf(c) # {} /\ AfterIdxFollowingLastBefore(c) # {}) =>
                \A k \in ActionsOf(c) :
                    MatchesAfter(context.actions[k],
                                 trace_content[SetMin(AfterIdxFollowingLastBefore(c))])

\* the trace loop reads an after line whose callId is in the action map
MatchedAfterStep ==
    /\ pc = "trace"
    /\ Len(trace_content') = Len(trace_content) + 1
    /\ Last(trace_content') \in AfterLines
    /\ Last(trace_content').callId \in DOMAIN actions_map

(* C31 amended: every after event whose callId has an Action in progress   *)
(* is applied, whether or not an earlier after event was: the step that    *)
(* reads it sets the Action's end time and error to its own, replacing     *)
(* what an earlier after event had set, and changes nothing else of the    *)
(* Action and no other Action.                                             *)
C31_EveryMatchingAfterIsApplied ==
    [][ MatchedAfterStep =>
            LET after == Last(trace_content')
                c == after.callId
            IN  /\ DOMAIN actions_map' = DOMAIN actions_map
                /\ MatchesAfter(actions_map'[c], after)
                /\ actions_map'[c] =
                       [actions_map[c] EXCEPT !.end_time = actions_map'[c].end_time,
                                              !.error = actions_map'[c].error]
                /\ \A d \in DOMAIN actions_map \ {c} : actions_map'[d] = actions_map[d]
      ]_vars

\* a before event followed by two after events with its callId that differ
\* in end time: the returned Action has the end time and error of the second
C31_Witness ==
    /\ pc = "done"
    /\ \E c \in CallIds :
           /\ BeforeIdxOf(c) # {}
           /\ Cardinality(AfterIdxFollowingLastBefore(c)) = 2
           /\ trace_content[SetMin(AfterIdxFollowingLastBefore(c))].endTime
                  # trace_content[SetMax(AfterIdxFollowingLastBefore(c))].endTime
           /\ \E k \in ActionsOf(c) :
                  MatchesAfter(context.actions[k],
                               trace_content[SetMax(AfterIdxFollowingLastBefore(c))])


-----------------------------------------------------------------------------
(* C32: when the trace holds several context-options events, the Context's *)
(* browser name, platform, tool version, wall-clock origin and title are   *)
(* those of the last one in file order; an optional field that is absent   *)
(* from the last one is None, whatever an earlier one said.                *)
\* what a JSON context-options object says about the Context, field by field
MatchesContextOptions(ctx, o) ==
    /\ ctx.browser_name = o.browserName
    /\ ctx.platform = (IF "platform" \in DOMAIN o THEN <<o.platform>> ELSE <<>>)
    /\ ctx.playwright_version =
           (IF "playwrightVersion" \in DOMAIN o THEN <<o.playwrightVersion>> ELSE <<>>)
    /\ ctx.wall_time = o.wallTime
    /\ ctx.title = (IF "title" \in DOMAIN o THEN <<o.title>> ELSE <<>>)

C32_LastContextOptionsWins ==
    ContextOptionsIdx # {}
        => MatchesContextOptions(context, trace_content[SetMax(ContextOptionsIdx)])

\* a context-options event with a title and a platform, then one without:
\* the returned Context has neither
C32_Witness ==
    /\ pc = "done"
    /\ Cardinality(ContextOptionsIdx) = 2
    /\ "title" \in DOMAIN trace_content[SetMin(ContextOptionsIdx)]
    /\ "title" \notin DOMAIN trace_content[SetMax(ContextOptionsIdx)]
    /\ context.title = None
    /\ context.platform = None
    /\ context.browser_name = "firefox"


-----------------------------------------------------------------------------
(* C33: pages are created only by screencast-frame events of the trace:    *)
(* the final Context.pages has exactly one Page per distinct page id of a  *)
(* screencast-frame event, none for a page id that only before events      *)
(* name; the frames of a Page are the screencast-frame events of its page  *)
(* id in arrival order; the frames of all Pages are as many as the         *)
(* screencast-frame events.                                                *)
FrameIdx == {i \in TraceIdx : trace_content[i] \in ScreencastFrameLines}
FrameIdxOf(p) == {i \in FrameIdx : trace_content[i].pageId = p}
FramePageIds == {trace_content[i].pageId : i \in FrameIdx}

\* the n-th smallest element of a set of positions
NthOf(S, n) == CHOOSE i \in S : Cardinality({j \in S : j <= i}) = n

PageIdx == 1..Len(context.pages)

\* what a JSON screencast-frame object says about the frame
MatchesFrame(f, o) ==
    /\ f.sha1 = o.sha1
    /\ f.timestamp = o.timestamp
    /\ f.width = o.width
    /\ f.height = o.height
    /\ f.frame_swap_wall_time = None

RECURSIVE SumOfFrames(_)
SumOfFrames(ps) ==
    IF ps = <<>> THEN 0 ELSE Len(Head(ps).screencast_frames) + SumOfFrames(Tail(ps))

C33_PagesFromScreencastFrames ==
    pc = "done" =>
        /\ {context.pages[k].page_id : k \in PageIdx} = FramePageIds
        /\ Len(context.pages) = Cardinality(FramePageIds)
        /\ \A k \in PageIdx :
              LET page == context.pages[k]
                  of_page == FrameIdxOf(page.page_id)
              IN  /\ Len(page.screencast_frames) = Cardinality(of_page)
                  /\ \A n \in 1..Len(page.screencast_frames) :
                         MatchesFrame(page.screencast_frames[n],
                                      trace_content[NthOf(of_page, n)])
        /\ SumOfFrames(context.pages) = Cardinality(FrameIdx)

\* two pages; one of them has two different frames, with a frame of the
\* other page between them
C33_Witness ==
    /\ pc = "done"
    /\ Len(context.pages) = 2
    /\ \E k \in PageIdx :
           /\ Len(context.pages[k].screencast_frames) = 2
           /\ context.pages[k].screencast_frames[1] # context.pages[k].screencast_frames[2]
           /\ FrameIdxOf(context.pages[k].page_id) = {1, 3}


-----------------------------------------------------------------------------
(* C34: events decoded from the .network text drive no state transition:   *)
(* the step that reads a network line, whatever record it holds, leaves    *)
(* the actions, the pages and the Context (metadata and time bounds) as    *)
(* they were; a decoded record is only appended to the raw events, and a   *)
(* line that does not decode or is blank adds nothing.                     *)
NetworkLineStep ==
    /\ pc = "network"
    /\ Len(network_content') = Len(network_content) + 1

C34_NetworkEventsAreInert ==
    [][ NetworkLineStep =>
            LET line == Last(network_content')
            IN  /\ UNCHANGED <<actions_map, pages, context>>
                /\ IF line \in MalformedLines \cup {BlankLine}
                   THEN events' = events
                   ELSE /\ Len(events') = Len(events) + 1
                        /\ SubSeq(events', 1, Len(events)) = events
                        /\ EventMatchesLine(Last(events'), line) ]_vars

\* a trace with a before event for c1, and a network text with an after
\* record for c1 and a context-options record: the Action is not completed,
\* the Context has no browser name and no end time, the raw events are three
C34_Witness ==
    /\ pc = "done"
    /\ BeforeIdxOf("c1") = {1}
    /\ Len(network_content) = 2
    /\ \E n \in 1..2 : network_content[n] = AfterErr("c1", 3)
    /\ \E n \in 1..2 : network_content[n] \in ContextOptionsLines
    /\ Len(context.actions) = 1
    /\ context.actions[1].end_time = 0
    /\ context.actions[1].error = None
    /\ context.end_time = 0
    /\ context.browser_name = ""
    /\ Len(context.events) = 3


-----------------------------------------------------------------------------
(* C35: an Action is completed only by an after event that comes later in  *)
(* the trace than its before event.  An Action of the final Context whose  *)
(* before event (the one it was built from) is followed by no after event  *)
(* with its callId, because there is none or because it came earlier, has  *)
(* end_time 0 and no error; and every callId whose before event is not so  *)
(* followed has such an Action in Context.actions.                         *)
IsCompleted(a) == a.end_time # 0 \/ a.error # None

C35_CompletedOnlyByLaterAfter ==
    pc = "done" =>
        /\ \A k \in ActionIdx :
              IsCompleted(context.actions[k])
                  => AfterIdxFollowingLastBefore(context.actions[k].call_id) # {}
        /\ \A c \in CallIds :
              (BeforeIdxOf(c) # {} /\ AfterIdxFollowingLastBefore(c) = {})
                  => \E k \in ActionsOf(c) : ~IsCompleted(context.actions[k])

\* the only after event of a callId comes before its only before event:
\* the Action is in the Context, not completed
C35_Witness ==
    /\ pc = "done"
    /\ \E c \in CallIds :
           /\ Cardinality(BeforeIdxOf(c)) = 1
           /\ AfterIdxOf(c) # {}
           /\ \A j \in AfterIdxOf(c) : j < LastBeforeOf(c)
           /\ \E k \in ActionsOf(c) :
                  /\ context.actions[k].end_time = 0
                  /\ context.actions[k].error = None


-----------------------------------------------------------------------------
(* C36: an after event with no matching Action in progress leaves          *)
(* Context.end_time unchanged: the step that reads it changes nothing of   *)
(* the Context, and Context.end_time changes only in a step that reads an  *)
(* after event whose callId has an Action, to that event's larger endTime. *)
C36_OrphanAfterKeepsEndTime ==
    [][ /\ OrphanAfterStep => context' = context
        /\ context'.end_time # context.end_time =>
               /\ MatchedAfterStep
               /\ context'.end_time = Last(trace_content').endTime
               /\ context'.end_time > context.end_time ]_vars

\* a completed Action, then an after event with a larger endTime for a
\* callId that has no before event: the Context ends with the Action
C36_Witness ==
    /\ pc = "done"
    /\ \E j \in MatchedAfterIdx : \E o \in AfterIdx :
           /\ BeforeIdxOf(trace_content[o].callId) = {}
           /\ j < o
           /\ trace_content[o].endTime > trace_content[j].endTime
           /\ context.end_time = trace_content[j].endTime


-----------------------------------------------------------------------------
(* C37: a Context reconstructed from a trace with no decoded before event  *)
(* keeps its initial bounds: start_time is the maximum-value sentinel and  *)
(* end_time is 0, whatever context-options and other events the trace      *)
(* holds, so start_time > end_time.                                        *)
C37_NoBeforeKeepsInitialBounds ==
    BeforeIdx = {} =>
        /\ context.start_time = F64MAX
        /\ context.end_time = 0
        /\ context.start_time > context.end_time

\* a returned Context from a trace with a context-options event, a before
\* object that does not decode and no decoded before event
C37_Witness ==
    /\ pc = "done"
    /\ BeforeIdx = {}
    /\ ContextOptionsIdx # {}
    /\ \E i \in TraceIdx : trace_content[i] = BeforeNoClassLine
    /\ context.browser_name # ""
    /\ context.start_time = F64MAX
    /\ context.end_time = 0


-----------------------------------------------------------------------------
(* The application as the claims see it *)

\* the messages that end a load
FinalMessages == {"TestCasesLoaded", "TraceLoaded", "LoadError"}
HasFinalMessage == IsSome(message) /\ Unwrap(message).type \in FinalMessages

\* the callback of a file that was read has come to its end
CallbackEnded == entry_point = "load_file" /\ apc \in {"done", "aborted"}

\* load_trace_from_zip has been called by the callback
TraceLoaderCalled ==
    /\ entry_point = "load_file"
    /\ apc \in {"call", "nested", "return", "aborted"} \/ IsSome(ret)

\* the test-case loader fails on the file or returns no test case
NoTestCasesIn(file) ==
    \A loaded \in LoadTestCasesFromZip(file) : ~loaded.ok \/ loaded.test_cases = <<>>

\* C38: the application tries the test-case loader before the trace loader
\* and falls back to the trace loader only when the test-case loader fails
\* or returns zero test cases; for a file that was read exactly one of
\* TestCasesLoaded, TraceLoaded and LoadError is emitted, and LoadError only
\* when the trace loader also failed.
C38_TestCasesFirstOneMessage ==
    /\ [](TraceLoaderCalled => NoTestCasesIn(bytes))
    /\ [](CallbackEnded =>
            /\ HasFinalMessage
            /\ Unwrap(message).type = "TestCasesLoaded"
                   => ~TraceLoaderCalled /\ ~NoTestCasesIn(bytes)
            /\ Unwrap(message).type = "TraceLoaded"
                   => IsSome(ret) /\ Returned.ok
            /\ Unwrap(message).type = "LoadError"
                   => IsSome(ret) /\ ~Returned.ok)
    /\ [][HasFinalMessage => message' = message]_vars


\* the views that offer no way to hand a file to the application
LoadEnded == state.type \in {"LoadedTrace", "LoadedTestCases", "Error"}

\* C39: the LoadingState never returns to Idle once a file load has started,
\* and from LoadedTrace, LoadedTestCases and Error no further file is
\* loaded: the state stays what it is and no read is started, also by the
\* Try Again action of the Error view, which sends FilesDropped with an
\* empty list.
C39_NeverBackToIdle ==
    [][ /\ state.type # "Idle" => state'.type # "Idle"
        /\ LoadEnded => state' = state /\ apc' = apc /\ message' = message
      ]_vars

\* the Error view is shown after both loaders failed: Try Again can be
\* pressed
C39_Witness ==
    /\ entry_point = "load_file"
    /\ state.type = "Error"
    /\ apc = "done"
    /\ IsSome(ret)
    /\ ~Returned.ok
    /\ state.message = Returned.err


-----------------------------------------------------------------------------
(* The errors-only export.                                                 *)

\* the pieces of the output that head a context, count its actions, open its
\* Actions section or head one action
IsOutline(piece) ==
    \/ StartsWith(piece, "## Context ") /\ piece # "## Context Errors\n\n"
    \/ StartsWith(piece, "- **Total Actions**: ")
    \/ StartsWith(piece, "- **Failed Actions**: ")
    \/ piece = "## Actions\n\n"
    \/ StartsWith(piece, "### ") /\ ~StartsWith(piece, "### Error ")

Outline == SelectSeq(output, IsOutline)

\* the positions in Context.actions of the actions that have an error
ErrorIdx(c) == {i \in 1..Len(c.actions) : c.actions[i].error # None}

\* the k-th of them, counting from 1 in Context.actions order
KthError(c, k) == CHOOSE i \in ErrorIdx(c) : Cardinality({j \in ErrorIdx(c) : j <= i}) = k

DisplayName(action) ==
    IF action.method # None THEN action.method[1]
    ELSE IF action.class # None THEN action.class[1]
    ELSE action.action_type

\* what the errors-only outline of the n-th context has to be
ErrorsOnlyOutline(n) ==
    LET c == model.contexts[n]
        failed == Cardinality(ErrorIdx(c))
    IN  (IF Len(model.contexts) > 1 THEN <<"## Context " \o ToString(n) \o "\n\n">> ELSE <<>>)
        \o <<"- **Total Actions**: " \o ToString(Len(c.actions)) \o "\n",
             "- **Failed Actions**: " \o ToString(failed) \o "\n">>
        \o (IF failed > 0 THEN <<"## Actions\n\n">> ELSE <<>>)
        \o [k \in 1..failed |->
               "### " \o ToString(k) \o ". " \o DisplayName(c.actions[KthError(c, k)])
                   \o " [!] FAILED\n\n"]

RECURSIVE ErrorsOnlyOutlineFrom(_)
ErrorsOnlyOutlineFrom(n) ==
    IF n > Len(model.contexts) THEN <<>>
    ELSE ErrorsOnlyOutline(n) \o ErrorsOnlyOutlineFrom(n + 1)

\* C40: with errors_only set, the Actions section of each context lists
\* exactly the actions that have an error, in Context.actions order and
\* numbered consecutively from 1, and no action without an error, while the
\* Total Actions and Failed Actions lines count over all actions of the
\* context.
C40_ErrorsOnlyListsFailedActions ==
    (entry_point = "export_to_markdown" /\ apc = "done" /\ options.errors_only)
        => Outline = ErrorsOnlyOutlineFrom(1)

\* an errors-only export of a context whose first action succeeded and whose
\* second failed: the failed one is listed as number 1 of 2 actions
C40_Witness ==
    /\ entry_point = "export_to_markdown"
    /\ apc = "done"
    /\ options.errors_only
    /\ \E n \in 1..Len(model.contexts) :
           LET c == model.contexts[n]
           IN  /\ Len(c.actions) = 2
               /\ c.actions[1].error = None
               /\ c.actions[2].error # None
    /\ \E p \in 1..Len(output) : output[p] = "- **Total Actions**: 2\n"
    /\ \E p \in 1..Len(output) : output[p] = "### 1. goto [!] FAILED\n\n"
    /\ ~ \E p \in 1..Len(output) : StartsWith(output[p], "### 2. ")
====
